---- MODULE Spec2Model ----
(***************************************************************************)
(* The two guided-workflow state machines of tool-as-guide:                *)
(*   examples/01-pizza-ordering/pizza_guide.py   (PizzaOrderGuide)         *)
(*   examples/02-medical-triage/triage_guide.py  (MedicalTriageGuide)      *)
(* Each guide owns a dictionary of sessions keyed by session id and is     *)
(* driven by start / continue / get / cancel calls.  A call is one         *)
(* synchronous Python method, so each call is one action.  The timestamps  *)
(* (created_at, the audit entries' "timestamp") and the prompt texts of    *)
(* the payloads are left out: no transition reads them.  Spec makes the    *)
(* calls one after the other; ConcurrentSpec runs two calls on one session *)
(* side by side, split at their accesses to the shared objects.            *)
(***************************************************************************)
EXTENDS Integers, Sequences, FiniteSets, TLC

\* Number of distinct session ids str(uuid.uuid4())[:8] can produce here.
NumIds == 2

SessionIds == 1..NumIds

\* Python's None.
None == "None"

\* Python's {} and dict.get(key, default).
EmptyDict == [k \in {} |-> k]

Get(d, k, default) == IF k \in DOMAIN d THEN d[k] ELSE default

\* Mutant: deleting a session empties the dictionary (self.sessions.clear()).
DictDel_Clear(d, k) == EmptyDict

\* dict deletion (del d[k]) and assignment (d[k] = v).
DictDel(d, k) == [x \in (DOMAIN d) \ {k} |-> d[x]]

DictPut(d, k, v) == [x \in (DOMAIN d) \cup {k} |-> IF x = k THEN v ELSE d[x]]

(***************************************************************************)
(* Pizza ordering                                                          *)
(*                                                                         *)
(* A user response is a Python str, modelled as the sequence of its        *)
(* characters so that lower(), strip(), replace(), split() and the "in"    *)
(* substring test are computed as Python computes them.                    *)
(***************************************************************************)

UpperCase == <<"A", "B", "C", "D", "E", "F", "G", "H", "I", "J", "K", "L", "M",
               "N", "O", "P", "Q", "R", "S", "T", "U", "V", "W", "X", "Y", "Z">>

LowerCase == <<"a", "b", "c", "d", "e", "f", "g", "h", "i", "j", "k", "l", "m",
               "n", "o", "p", "q", "r", "s", "t", "u", "v", "w", "x", "y", "z">>

Whitespace == {" "}

\* str.lower(): the lower-case letter of each upper-case letter.
LowerOf ==
    [c \in {UpperCase[j] : j \in 1..Len(UpperCase)} |->
        LowerCase[CHOOSE j \in 1..Len(UpperCase) : UpperCase[j] = c]]

Lower(str) ==
    [i \in 1..Len(str) |-> IF str[i] \in DOMAIN LowerOf THEN LowerOf[str[i]] ELSE str[i]]

\* str.strip()
RECURSIVE LStrip(_)
LStrip(str) ==
    IF str # <<>> /\ Head(str) \in Whitespace THEN LStrip(Tail(str)) ELSE str

RECURSIVE RStrip(_)
RStrip(str) ==
    IF str # <<>> /\ str[Len(str)] \in Whitespace
    THEN RStrip(SubSeq(str, 1, Len(str) - 1))
    ELSE str

Strip(str) == RStrip(LStrip(str))

\* The substring test "needle in hay"; the empty string is in every string.
Contains(needle, hay) ==
    \E i \in 0..(Len(hay) - Len(needle)) : SubSeq(hay, i + 1, i + Len(needle)) = needle

\* str.replace(old, new), left to right, old non-empty.
RECURSIVE Replace(_, _, _)
Replace(str, old, new) ==
    IF Len(str) < Len(old) THEN str
    ELSE IF SubSeq(str, 1, Len(old)) = old
    THEN new \o Replace(SubSeq(str, Len(old) + 1, Len(str)), old, new)
    ELSE <<Head(str)>> \o Replace(Tail(str), old, new)

\* str.split(sep) for a one-character separator; "".split(",") is [""].
RECURSIVE Split(_, _)
Split(str, sep) ==
    IF \E i \in 1..Len(str) : str[i] = sep
    THEN LET i == CHOOSE k \in 1..Len(str) :
                     str[k] = sep /\ \A m \in 1..(k - 1) : str[m] # sep
         IN  <<SubSeq(str, 1, i - 1)>> \o Split(SubSeq(str, i + 1, Len(str)), sep)
    ELSE <<str>>

\* Menu options (PizzaOrderGuide class attributes).
CRUSTS == <<"Thin", "Regular", "Thick", "Gluten-free">>

SIZES == <<"Small (10\")", "Medium (12\")", "Large (14\")", "Extra Large (16\")">>

VEGETARIAN_TOPPINGS == <<"Mushrooms", "Olives", "Bell Peppers", "Onions", "Tomatoes", "Spinach", "Artichokes", "Pineapple">>

MEAT_TOPPINGS == <<"Pepperoni", "Sausage", "Ham", "Bacon", "Chicken", "Ground Beef", "Salami">>

\* The characters of each menu option.
Chars ==
    ("Thin" :> <<"T", "h", "i", "n">>) @@
    ("Regular" :> <<"R", "e", "g", "u", "l", "a", "r">>) @@
    ("Thick" :> <<"T", "h", "i", "c", "k">>) @@
    ("Gluten-free" :> <<"G", "l", "u", "t", "e", "n", "-", "f", "r", "e", "e">>) @@
    ("Small (10\")" :> <<"S", "m", "a", "l", "l", " ", "(", "1", "0", "\"", ")">>) @@
    ("Medium (12\")" :> <<"M", "e", "d", "i", "u", "m", " ", "(", "1", "2", "\"", ")">>) @@
    ("Large (14\")" :> <<"L", "a", "r", "g", "e", " ", "(", "1", "4", "\"", ")">>) @@
    ("Extra Large (16\")" :> <<"E", "x", "t", "r", "a", " ", "L", "a", "r", "g", "e", " ", "(", "1", "6", "\"", ")">>) @@
    ("Mushrooms" :> <<"M", "u", "s", "h", "r", "o", "o", "m", "s">>) @@
    ("Olives" :> <<"O", "l", "i", "v", "e", "s">>) @@
    ("Bell Peppers" :> <<"B", "e", "l", "l", " ", "P", "e", "p", "p", "e", "r", "s">>) @@
    ("Onions" :> <<"O", "n", "i", "o", "n", "s">>) @@
    ("Tomatoes" :> <<"T", "o", "m", "a", "t", "o", "e", "s">>) @@
    ("Spinach" :> <<"S", "p", "i", "n", "a", "c", "h">>) @@
    ("Artichokes" :> <<"A", "r", "t", "i", "c", "h", "o", "k", "e", "s">>) @@
    ("Pineapple" :> <<"P", "i", "n", "e", "a", "p", "p", "l", "e">>) @@
    ("Pepperoni" :> <<"P", "e", "p", "p", "e", "r", "o", "n", "i">>) @@
    ("Sausage" :> <<"S", "a", "u", "s", "a", "g", "e">>) @@
    ("Ham" :> <<"H", "a", "m">>) @@
    ("Bacon" :> <<"B", "a", "c", "o", "n">>) @@
    ("Chicken" :> <<"C", "h", "i", "c", "k", "e", "n">>) @@
    ("Ground Beef" :> <<"G", "r", "o", "u", "n", "d", " ", "B", "e", "e", "f">>) @@
    ("Salami" :> <<"S", "a", "l", "a", "m", "i">>)

\* option.lower() of each menu option.
LowerChars == [option \in DOMAIN Chars |-> Lower(Chars[option])]

\* The for loop of _match_option from the i-th option on.
RECURSIVE MatchFrom(_, _, _)
MatchFrom(input, options, i) ==
    IF i > Len(options) THEN None
    ELSE IF \/ Contains(LowerChars[options[i]], input)
            \/ Contains(input, LowerChars[options[i]])
    THEN options[i]
    ELSE MatchFrom(input, options, i + 1)

\* PizzaOrderGuide._match_option: the first option, in menu order, that
\* contains the input or is contained in it, else None.
MatchOption(user_input, options) == MatchFrom(Strip(Lower(user_input)), options, 1)

\* The literals the handlers search for or replace.
StrVeg == <<"v", "e", "g">>

StrMeat == <<"m", "e", "a", "t">>

StrAnd == <<" ", "a", "n", "d", " ">>

StrYes == <<"y", "e", "s">>

StrConfirm == <<"c", "o", "n", "f", "i", "r", "m">>

StrLooksGood == <<"l", "o", "o", "k", "s", " ", "g", "o", "o", "d">>

\* The user responses the model submits to continue_order.
Responses ==
    {<<"t", "h", "i", "n">>,
     <<"x", "y", "z">>,
     <<>>,
     <<"m", "e", "a", "t">>,
     <<"H", "a", "m", " ", "a", "n", "d", " ", "B", "a", "c", "o", "n">>,
     <<"l", "a", "r", "g", "e">>,
     <<" ", "Y", "e", "s", " ">>}

\* The strings that reach _match_option from Responses: each stripped
\* response and each stripped part of its topping list.
ToppingParts(response) == Split(Replace(response, StrAnd, <<",">>), ",")

MatchInputs ==
    UNION {{Strip(r)} \cup {Strip(ToppingParts(Strip(r))[i]) :
                               i \in 1..Len(ToppingParts(Strip(r)))} : r \in Responses}

Menus == {CRUSTS, SIZES, VEGETARIAN_TOPPINGS, MEAT_TOPPINGS}

\* MatchOption tabulated over MatchInputs, so that it is computed once per
\* input and menu rather than once per call.
MatchTable == [user_input \in MatchInputs |-> [options \in Menus |-> MatchOption(user_input, options)]]

_match_option(user_input, options) ==
    IF user_input \in MatchInputs /\ options \in Menus
    THEN MatchTable[user_input][options]
    ELSE MatchOption(user_input, options)

\* PizzaOrder(session_id=..., state=...) with the dataclass defaults.
PizzaOrder(session_id, state) ==
    [session_id |-> session_id,
     state |-> state,
     crust |-> None,
     category |-> None,
     toppings |-> <<>>,
     size |-> None]

\* PizzaOrder.to_dict
PizzaToDict(order) ==
    [session_id |-> order.session_id,
     state |-> order.state,
     crust |-> order.crust,
     category |-> order.category,
     toppings |-> order.toppings,
     size |-> order.size]

\* str.title() of the category; None has no title() (AttributeError).
Title(category) ==
    CASE category = "vegetarian" -> "Vegetarian"
      [] category = "meat" -> "Meat"
      [] OTHER -> "AttributeError"

\* PizzaOrderGuide._generate_summary: the four lines of the summary.
_generate_summary(order) ==
    [Size |-> order.size,
     Crust |-> order.crust,
     Category |-> Title(order.category),
     Toppings |-> order.toppings]

\* Mutant: the crust handler moves on whether or not a crust was matched.
_handle_crust_choice_MoveOn(order, response) ==
    LET crust == _match_option(response, CRUSTS)
    IN  [order |-> [order EXCEPT !.crust = crust, !.state = "CHOOSE_CATEGORY"],
         deleted |-> FALSE,
         writes |-> <<"CHOOSE_CATEGORY">>,
         result |-> [status |-> "in_progress",
                     session_id |-> order.session_id,
                     action |-> "ask_user",
                     next_state |-> "CHOOSE_CATEGORY"]]

\* PizzaOrderGuide._handle_crust_choice.  A handler yields the mutated
\* order, whether it deleted the order from the store, the payload it
\* returns and, in order, the values it assigned to order.state.
_handle_crust_choice(order, response) ==
    LET crust == _match_option(response, CRUSTS)
    IN  IF crust = None
        THEN [order |-> order, deleted |-> FALSE, writes |-> <<>>,
              result |-> [status |-> "in_progress",
                          session_id |-> order.session_id,
                          action |-> "ask_user",
                          stay_in_state |-> TRUE]]
        ELSE [order |-> [order EXCEPT !.crust = crust, !.state = "CHOOSE_CATEGORY"],
              deleted |-> FALSE,
              writes |-> <<"CHOOSE_CATEGORY">>,
              result |-> [status |-> "in_progress",
                          session_id |-> order.session_id,
                          action |-> "ask_user",
                          next_state |-> "CHOOSE_CATEGORY"]]

\* The category _handle_category_choice reads out of the response.
MatchCategory(response) ==
    LET response_lower == Lower(response)
    IN  IF Contains(StrVeg, response_lower) THEN "vegetarian"
        ELSE IF Contains(StrMeat, response_lower) THEN "meat"
        ELSE None

\* Mutant: a response naming no category falls into the meat branch.
_handle_category_choice_DefaultMeat(order, response) ==
    LET category == IF MatchCategory(response) = "vegetarian" THEN "vegetarian" ELSE "meat"
        toppings == IF category = "vegetarian" THEN VEGETARIAN_TOPPINGS ELSE MEAT_TOPPINGS
    IN  [order |-> [order EXCEPT !.category = category, !.state = "CHOOSE_TOPPINGS"],
         deleted |-> FALSE,
         writes |-> <<"CHOOSE_TOPPINGS">>,
         result |-> [status |-> "in_progress",
                     session_id |-> order.session_id,
                     action |-> "ask_user",
                     next_state |-> "CHOOSE_TOPPINGS",
                     available_toppings |-> toppings]]

\* PizzaOrderGuide._handle_category_choice
_handle_category_choice(order, response) ==
    LET category == MatchCategory(response)
        toppings == IF category = "vegetarian" THEN VEGETARIAN_TOPPINGS ELSE MEAT_TOPPINGS
    IN  IF category = None
        THEN [order |-> order, deleted |-> FALSE, writes |-> <<>>,
              result |-> [status |-> "in_progress",
                          session_id |-> order.session_id,
                          action |-> "ask_user",
                          stay_in_state |-> TRUE]]
        ELSE [order |-> [order EXCEPT !.category = category, !.state = "CHOOSE_TOPPINGS"],
              deleted |-> FALSE,
              writes |-> <<"CHOOSE_TOPPINGS">>,
              result |-> [status |-> "in_progress",
                          session_id |-> order.session_id,
                          action |-> "ask_user",
                          next_state |-> "CHOOSE_TOPPINGS",
                          available_toppings |-> toppings]]

\* The loop of _handle_toppings_choice: the matched toppings, in order.
RECURSIVE SelectToppings(_, _)
SelectToppings(parts, available) ==
    IF parts = <<>> THEN <<>>
    ELSE LET topping == _match_option(Strip(Head(parts)), available)
         IN  (IF topping # None THEN <<topping>> ELSE <<>>)
                 \o SelectToppings(Tail(parts), available)

\* Mutant: the toppings handler matches against both topping menus.
_handle_toppings_choice_AnyMenu(order, response) ==
    LET available == VEGETARIAN_TOPPINGS \o MEAT_TOPPINGS
        parts == ToppingParts(response)
        selected_toppings == SelectToppings(parts, available)
    IN  IF selected_toppings = <<>>
        THEN [order |-> order, deleted |-> FALSE, writes |-> <<>>,
              result |-> [status |-> "in_progress",
                          session_id |-> order.session_id,
                          action |-> "ask_user",
                          stay_in_state |-> TRUE]]
        ELSE [order |-> [order EXCEPT !.toppings = selected_toppings,
                                      !.state = "CHOOSE_SIZE"],
              deleted |-> FALSE,
              writes |-> <<"CHOOSE_SIZE">>,
              result |-> [status |-> "in_progress",
                          session_id |-> order.session_id,
                          action |-> "ask_user",
                          next_state |-> "CHOOSE_SIZE"]]

\* PizzaOrderGuide._handle_toppings_choice
_handle_toppings_choice(order, response) ==
    LET available == IF order.category = "vegetarian"
                     THEN VEGETARIAN_TOPPINGS
                     ELSE MEAT_TOPPINGS
        parts == ToppingParts(response)
        selected_toppings == SelectToppings(parts, available)
    IN  IF selected_toppings = <<>>
        THEN [order |-> order, deleted |-> FALSE, writes |-> <<>>,
              result |-> [status |-> "in_progress",
                          session_id |-> order.session_id,
                          action |-> "ask_user",
                          stay_in_state |-> TRUE]]
        ELSE [order |-> [order EXCEPT !.toppings = selected_toppings,
                                      !.state = "CHOOSE_SIZE"],
              deleted |-> FALSE,
              writes |-> <<"CHOOSE_SIZE">>,
              result |-> [status |-> "in_progress",
                          session_id |-> order.session_id,
                          action |-> "ask_user",
                          next_state |-> "CHOOSE_SIZE"]]

\* PizzaOrderGuide._handle_size_choice
_handle_size_choice(order, response) ==
    LET size == _match_option(response, SIZES)
        o1 == [order EXCEPT !.size = size, !.state = "CONFIRM"]
    IN  IF size = None
        THEN [order |-> order, deleted |-> FALSE, writes |-> <<>>,
              result |-> [status |-> "in_progress",
                          session_id |-> order.session_id,
                          action |-> "ask_user",
                          stay_in_state |-> TRUE]]
        ELSE [order |-> o1,
              deleted |-> FALSE,
              writes |-> <<"CONFIRM">>,
              result |-> [status |-> "in_progress",
                          session_id |-> order.session_id,
                          action |-> "ask_user",
                          next_state |-> "CONFIRM",
                          order_summary |-> _generate_summary(o1)]]

\* Mutant: the confirmation test compares the whole response with the words.
IsConfirmation_Exact(response) ==
    Lower(response) \in {StrYes, StrConfirm, StrLooksGood}

\* The test of _handle_confirmation on the response.
IsConfirmation(response) ==
    LET response_lower == Lower(response)
    IN  \/ Contains(StrYes, response_lower)
        \/ Contains(StrConfirm, response_lower)
        \/ Contains(StrLooksGood, response_lower)

\* PizzaOrderGuide._handle_confirmation
_handle_confirmation(order, response) ==
    LET o1 == [order EXCEPT !.state = "COMPLETE"]
    IN  IF IsConfirmation(response)
        THEN [order |-> o1,
              deleted |-> FALSE,
              writes |-> <<"COMPLETE">>,
              result |-> [status |-> "complete",
                          session_id |-> order.session_id,
                          action |-> "respond",
                          summary |-> _generate_summary(o1),
                          order |-> PizzaToDict(o1)]]
        ELSE [order |-> order,
              deleted |-> TRUE,
              writes |-> <<>>,
              result |-> [status |-> "cancelled",
                          session_id |-> order.session_id,
                          action |-> "respond"]]

\* The if/elif dispatch of continue_order on order.state.
PizzaDispatch(order, user_response) ==
    IF order.state = "CHOOSE_CRUST"
    THEN _handle_crust_choice(order, user_response)
    ELSE IF order.state = "CHOOSE_CATEGORY"
    THEN _handle_category_choice(order, user_response)
    ELSE IF order.state = "CHOOSE_TOPPINGS"
    THEN _handle_toppings_choice(order, user_response)
    ELSE IF order.state = "CHOOSE_SIZE"
    THEN _handle_size_choice(order, user_response)
    ELSE IF order.state = "CONFIRM"
    THEN _handle_confirmation(order, user_response)
    ELSE [order |-> order, deleted |-> FALSE, writes |-> <<>>,
          result |-> [status |-> "error",
                      message |-> <<"Unknown state: ", order.state>>]]

(***************************************************************************)
(* Medical triage                                                          *)
(***************************************************************************)

\* TriageLevel(Enum): member name -> value.
TriageLevelValue(level) ==
    CASE level = "IMMEDIATE" -> "Level 1 - Immediate (Life-threatening)"
      [] level = "EMERGENCY" -> "Level 2 - Emergency (10 min)"
      [] level = "URGENT" -> "Level 3 - Urgent (30 min)"
      [] level = "SEMI_URGENT" -> "Level 4 - Semi-urgent (60 min)"
      [] level = "NON_URGENT" -> "Level 5 - Non-urgent (120 min)"

\* The agent reports the model submits to continue_triage.
EmptyReport == EmptyDict

EmergencyReport ==
    [classification |->
        [requires_emergency_protocol |-> TRUE,
         critical_symptoms |-> <<"severe chest pain">>,
         severity |-> "critical"],
     symptoms_detected |-> <<"severe chest pain">>,
     patient_statement |-> "crushing chest pain",
     chief_complaint |-> "chest pain",
     medical_history |-> [patient_id |-> "P001", high_risk |-> TRUE],
     high_risk_conditions |-> <<"heart disease">>,
     vitals |-> [heart_rate |-> 150, oxygen_saturation |-> 88],
     critical_values |-> <<"heart_rate">>,
     record_id |-> "TR-0001",
     status |-> "saved"]

Reports == {EmptyReport, EmergencyReport}

\* TriageSession(session_id=..., state=...) with the dataclass defaults.
TriageSession(session_id, state) ==
    [session_id |-> session_id,
     state |-> state,
     red_flags_checked |-> FALSE,
     has_red_flags |-> FALSE,
     red_flag_details |-> <<>>,
     chief_complaint |-> None,
     medical_history |-> EmptyDict,
     vitals |-> EmptyDict,
     vitals_critical |-> FALSE,
     severity_score |-> 0,
     triage_level |-> None,
     recommendation |-> None,
     protocol_steps |-> <<>>]

\* Mutant: add_step keeps the latest entry only.
add_step_Latest(session, step, data) ==
    [session EXCEPT !.protocol_steps = <<[step |-> step, data |-> data]>>]

\* TriageSession.add_step
add_step(session, step, data) ==
    [session EXCEPT !.protocol_steps = Append(@, [step |-> step, data |-> data])]

\* Mutant: the emergency branch sets the flag but falls through to the
\* standard protocol.
_handle_red_flag_screening_FallThrough(session, report) ==
    LET classification == Get(report, "classification", EmptyDict)
        symptoms == Get(report, "symptoms_detected", <<>>)
        requires_emergency == Get(classification, "requires_emergency_protocol", FALSE)
        detected_red_flags == Get(classification, "critical_symptoms", <<>>)
        s1 == [session EXCEPT !.red_flags_checked = TRUE]
        s2 == add_step(s1, "red_flag_screening",
                  [symptoms_detected |-> symptoms,
                   severity |-> Get(classification, "severity", "unknown"),
                   red_flags |-> detected_red_flags])
        s3 == IF requires_emergency
              THEN [s2 EXCEPT !.has_red_flags = TRUE,
                              !.red_flag_details = detected_red_flags]
              ELSE s2
        n1 == [s3 EXCEPT !.state = "CHIEF_COMPLAINT"]
        n2 == add_step(n1, "red_flag_screening_passed", [result |-> "no_red_flags"])
    IN  [session |-> n2,
         writes |-> <<"CHIEF_COMPLAINT">>,
         result |->
            [status |-> "in_progress",
             session_id |-> session.session_id,
             task |-> "gather_chief_complaint",
             required_data |-> <<"chief_complaint", "symptom_description">>]]

\* MedicalTriageGuide._handle_red_flag_screening.  A handler yields the
\* mutated session, the payload it returns and, in order, the values it
\* assigned to session.state.
_handle_red_flag_screening(session, report) ==
    LET classification == Get(report, "classification", EmptyDict)
        symptoms == Get(report, "symptoms_detected", <<>>)
        requires_emergency == Get(classification, "requires_emergency_protocol", FALSE)
        detected_red_flags == Get(classification, "critical_symptoms", <<>>)
        s1 == [session EXCEPT !.red_flags_checked = TRUE]
        s2 == add_step(s1, "red_flag_screening",
                  [symptoms_detected |-> symptoms,
                   severity |-> Get(classification, "severity", "unknown"),
                   red_flags |-> detected_red_flags])
        e1 == [s2 EXCEPT !.has_red_flags = TRUE,
                         !.red_flag_details = detected_red_flags,
                         !.state = "EMERGENCY_ESCALATION",
                         !.triage_level = "IMMEDIATE",
                         !.recommendation = "IMMEDIATE EMERGENCY CARE REQUIRED"]
        e2 == add_step(e1, "emergency_escalation_activated",
                  [decision |-> "EMERGENCY_ESCALATION",
                   triage_level |-> TriageLevelValue("IMMEDIATE"),
                   red_flags |-> detected_red_flags,
                   reason |-> "Critical symptoms detected by classifier"])
        e3 == [e2 EXCEPT !.state = "SAVE_RECORD"]
        n1 == [s2 EXCEPT !.state = "CHIEF_COMPLAINT"]
        n2 == add_step(n1, "red_flag_screening_passed", [result |-> "no_red_flags"])
    IN  IF requires_emergency
        THEN [session |-> e3,
              writes |-> <<"EMERGENCY_ESCALATION", "SAVE_RECORD">>,
              result |->
                [status |-> "emergency_save_required",
                 session_id |-> session.session_id,
                 decision |-> "EMERGENCY_ESCALATION",
                 triage_level |-> TriageLevelValue("IMMEDIATE"),
                 red_flags_detected |-> detected_red_flags,
                 task |-> "save_triage_record",
                 triage_data |->
                    [patient_id |-> Get(Get(report, "medical_history", EmptyDict),
                                        "patient_id", "P001"),
                     complaint |-> Get(report, "patient_statement", ""),
                     severity |-> Get(classification, "severity", "critical"),
                     triage_level |-> TriageLevelValue("IMMEDIATE"),
                     red_flags |-> detected_red_flags],
                 audit_trail |-> e3.protocol_steps]]
        ELSE [session |-> n2,
              writes |-> <<"CHIEF_COMPLAINT">>,
              result |->
                [status |-> "in_progress",
                 session_id |-> session.session_id,
                 task |-> "gather_chief_complaint",
                 required_data |-> <<"chief_complaint", "symptom_description">>]]

\* Mutant: the chief complaint handler skips the medical history state.
_handle_chief_complaint_SkipHistory(session, report) ==
    LET s1 == [session EXCEPT !.chief_complaint = Get(report, "chief_complaint", "")]
        s2 == add_step(s1, "chief_complaint_gathered", report)
        s3 == [s2 EXCEPT !.state = "VITAL_SIGNS"]
    IN  [session |-> s3,
         writes |-> <<"VITAL_SIGNS">>,
         result |->
            [status |-> "in_progress",
             session_id |-> session.session_id,
             task |-> "get_vital_signs",
             required_data |-> <<"blood_pressure", "heart_rate", "temperature",
                                 "respiratory_rate", "oxygen_saturation">>]]

\* Mutant: the chief complaint handler sets a provisional level.
_handle_chief_complaint_Provisional(session, report) ==
    LET s1 == [session EXCEPT !.chief_complaint = Get(report, "chief_complaint", ""),
                              !.triage_level = "NON_URGENT"]
        s2 == add_step(s1, "chief_complaint_gathered", report)
        s3 == [s2 EXCEPT !.state = "MEDICAL_HISTORY"]
    IN  [session |-> s3,
         writes |-> <<"MEDICAL_HISTORY">>,
         result |->
            [status |-> "in_progress",
             session_id |-> session.session_id,
             task |-> "check_medical_history",
             required_data |-> <<"medical_history", "medications", "allergies">>]]

\* MedicalTriageGuide._handle_chief_complaint
_handle_chief_complaint(session, report) ==
    LET s1 == [session EXCEPT !.chief_complaint = Get(report, "chief_complaint", "")]
        s2 == add_step(s1, "chief_complaint_gathered", report)
        s3 == [s2 EXCEPT !.state = "MEDICAL_HISTORY"]
    IN  [session |-> s3,
         writes |-> <<"MEDICAL_HISTORY">>,
         result |->
            [status |-> "in_progress",
             session_id |-> session.session_id,
             task |-> "check_medical_history",
             required_data |-> <<"medical_history", "medications", "allergies">>]]

\* Mutant: the medical history handler derives the score from the session id.
_handle_medical_history_ById(session, report) ==
    LET s1 == [session EXCEPT !.medical_history = Get(report, "medical_history", EmptyDict)]
        s2 == add_step(s1, "medical_history_checked", report)
        high_risk_conditions == Get(report, "high_risk_conditions", <<>>)
        s3 == IF Len(high_risk_conditions) > 0
              THEN [s2 EXCEPT !.severity_score = @ + session.session_id]
              ELSE s2
        s4 == [s3 EXCEPT !.state = "VITAL_SIGNS"]
    IN  [session |-> s4,
         writes |-> <<"VITAL_SIGNS">>,
         result |->
            [status |-> "in_progress",
             session_id |-> session.session_id,
             task |-> "get_vital_signs",
             required_data |-> <<"blood_pressure", "heart_rate", "temperature",
                                 "respiratory_rate", "oxygen_saturation">>]]

\* MedicalTriageGuide._handle_medical_history
_handle_medical_history(session, report) ==
    LET s1 == [session EXCEPT !.medical_history = Get(report, "medical_history", EmptyDict)]
        s2 == add_step(s1, "medical_history_checked", report)
        high_risk_conditions == Get(report, "high_risk_conditions", <<>>)
        s3 == IF Len(high_risk_conditions) > 0
              THEN [s2 EXCEPT !.severity_score = @ + 2]
              ELSE s2
        s4 == [s3 EXCEPT !.state = "VITAL_SIGNS"]
    IN  [session |-> s4,
         writes |-> <<"VITAL_SIGNS">>,
         result |->
            [status |-> "in_progress",
             session_id |-> session.session_id,
             task |-> "get_vital_signs",
             required_data |-> <<"blood_pressure", "heart_rate", "temperature",
                                 "respiratory_rate", "oxygen_saturation">>]]

\* Mutant: the vital signs handler computes the score from the vital signs
\* alone instead of adding to it.
_handle_vital_signs_Recompute(session, report) ==
    LET vitals == Get(report, "vitals", EmptyDict)
        critical_values == Get(report, "critical_values", <<>>)
        s1 == [session EXCEPT !.vitals = vitals,
                              !.vitals_critical = (Len(critical_values) > 0)]
        s2 == add_step(s1, "vital_signs_obtained",
                  [vitals |-> vitals, critical_values |-> critical_values])
        s3 == [s2 EXCEPT !.severity_score = IF Len(critical_values) > 0 THEN 3 ELSE 0]
        s4 == [s3 EXCEPT !.state = "SEVERITY_ASSESSMENT"]
    IN  [session |-> s4,
         writes |-> <<"SEVERITY_ASSESSMENT">>,
         result |->
            [status |-> "in_progress",
             session_id |-> session.session_id,
             task |-> "assess_severity",
             data_for_assessment |->
                [red_flags |-> s4.red_flag_details,
                 chief_complaint |-> s4.chief_complaint,
                 medical_history |-> s4.medical_history,
                 vitals |-> s4.vitals,
                 severity_score |-> s4.severity_score]]]

\* Mutant: the vital signs handler asks again when the report has no vitals.
_handle_vital_signs_Retry(session, report) ==
    LET vitals == Get(report, "vitals", EmptyDict)
        critical_values == Get(report, "critical_values", <<>>)
        s1 == [session EXCEPT !.vitals = vitals,
                              !.vitals_critical = (Len(critical_values) > 0)]
        s2 == add_step(s1, "vital_signs_obtained",
                  [vitals |-> vitals, critical_values |-> critical_values])
        s3 == IF Len(critical_values) > 0
              THEN [s2 EXCEPT !.severity_score = @ + 3]
              ELSE s2
        s4 == [s3 EXCEPT !.state = "SEVERITY_ASSESSMENT"]
    IN  IF "vitals" \notin DOMAIN report
        THEN [session |-> session,
              writes |-> <<>>,
              result |->
                 [status |-> "in_progress",
                  session_id |-> session.session_id,
                  task |-> "get_vital_signs",
                  required_data |-> <<"blood_pressure", "heart_rate", "temperature",
                                      "respiratory_rate", "oxygen_saturation">>]]
        ELSE [session |-> s4,
              writes |-> <<"SEVERITY_ASSESSMENT">>,
              result |->
                 [status |-> "in_progress",
                  session_id |-> session.session_id,
                  task |-> "assess_severity",
                  data_for_assessment |->
                     [red_flags |-> s4.red_flag_details,
                      chief_complaint |-> s4.chief_complaint,
                      medical_history |-> s4.medical_history,
                      vitals |-> s4.vitals,
                      severity_score |-> s4.severity_score]]]

\* Mutant: vitals_critical needs more than one critical value.
_handle_vital_signs_TwoCritical(session, report) ==
    LET vitals == Get(report, "vitals", EmptyDict)
        critical_values == Get(report, "critical_values", <<>>)
        s1 == [session EXCEPT !.vitals = vitals,
                              !.vitals_critical = (Len(critical_values) > 1)]
        s2 == add_step(s1, "vital_signs_obtained",
                  [vitals |-> vitals, critical_values |-> critical_values])
        s3 == IF Len(critical_values) > 0
              THEN [s2 EXCEPT !.severity_score = @ + 3]
              ELSE s2
        s4 == [s3 EXCEPT !.state = "SEVERITY_ASSESSMENT"]
    IN  [session |-> s4,
         writes |-> <<"SEVERITY_ASSESSMENT">>,
         result |->
            [status |-> "in_progress",
             session_id |-> session.session_id,
             task |-> "assess_severity",
             data_for_assessment |->
                [red_flags |-> s4.red_flag_details,
                 chief_complaint |-> s4.chief_complaint,
                 medical_history |-> s4.medical_history,
                 vitals |-> s4.vitals,
                 severity_score |-> s4.severity_score]]]

\* MedicalTriageGuide._handle_vital_signs
_handle_vital_signs(session, report) ==
    LET vitals == Get(report, "vitals", EmptyDict)
        critical_values == Get(report, "critical_values", <<>>)
        s1 == [session EXCEPT !.vitals = vitals,
                              !.vitals_critical = (Len(critical_values) > 0)]
        s2 == add_step(s1, "vital_signs_obtained",
                  [vitals |-> vitals, critical_values |-> critical_values])
        s3 == IF Len(critical_values) > 0
              THEN [s2 EXCEPT !.severity_score = @ + 3]
              ELSE s2
        s4 == [s3 EXCEPT !.state = "SEVERITY_ASSESSMENT"]
    IN  [session |-> s4,
         writes |-> <<"SEVERITY_ASSESSMENT">>,
         result |->
            [status |-> "in_progress",
             session_id |-> session.session_id,
             task |-> "assess_severity",
             data_for_assessment |->
                [red_flags |-> s4.red_flag_details,
                 chief_complaint |-> s4.chief_complaint,
                 medical_history |-> s4.medical_history,
                 vitals |-> s4.vitals,
                 severity_score |-> s4.severity_score]]]

\* Mutant: the thresholds of the level are exclusive.
AssessLevel_Exclusive(severity_score, vitals_critical) ==
    IF severity_score > 5 \/ vitals_critical
    THEN [triage_level |-> "EMERGENCY",
          recommendation |-> "Emergency Department - within 10 minutes"]
    ELSE IF severity_score > 3
    THEN [triage_level |-> "URGENT",
          recommendation |-> "Urgent Care or ED - within 30 minutes"]
    ELSE IF severity_score > 2
    THEN [triage_level |-> "SEMI_URGENT",
          recommendation |-> "Urgent Care - within 60 minutes"]
    ELSE [triage_level |-> "NON_URGENT",
          recommendation |-> "Primary care or telehealth - within 24 hours"]

\* The if/elif chain of _handle_severity_assessment that picks the level.
AssessLevel(severity_score, vitals_critical) ==
    IF severity_score >= 5 \/ vitals_critical
    THEN [triage_level |-> "EMERGENCY",
          recommendation |-> "Emergency Department - within 10 minutes"]
    ELSE IF severity_score >= 3
    THEN [triage_level |-> "URGENT",
          recommendation |-> "Urgent Care or ED - within 30 minutes"]
    ELSE IF severity_score >= 2
    THEN [triage_level |-> "SEMI_URGENT",
          recommendation |-> "Urgent Care - within 60 minutes"]
    ELSE [triage_level |-> "NON_URGENT",
          recommendation |-> "Primary care or telehealth - within 24 hours"]

\* MedicalTriageGuide._handle_severity_assessment
_handle_severity_assessment(session, report) ==
    LET a == AssessLevel(session.severity_score, session.vitals_critical)
        s1 == [session EXCEPT !.triage_level = a.triage_level,
                              !.recommendation = a.recommendation]
        s2 == add_step(s1, "triage_completed",
                  [triage_level |-> TriageLevelValue(s1.triage_level),
                   recommendation |-> s1.recommendation])
        s3 == [s2 EXCEPT !.state = "COMPLETE"]
    IN  [session |-> s3,
         writes |-> <<"COMPLETE">>,
         result |->
            [status |-> "complete",
             session_id |-> session.session_id,
             triage_level |-> TriageLevelValue(s3.triage_level),
             recommendation |-> s3.recommendation,
             protocol_compliance |->
                [all_steps_completed |-> TRUE,
                 red_flags_screened |-> s3.red_flags_checked,
                 vitals_obtained |-> (DOMAIN s3.vitals # {}),
                 history_reviewed |-> (DOMAIN s3.medical_history # {})],
             audit_trail |-> s3.protocol_steps]]

\* Mutant: saving the record re-initialises the red-flag fields.
_handle_save_record_ResetFlag(session, report) ==
    LET s1 == add_step(session, "triage_record_saved",
                  [record_id |-> Get(report, "record_id", None),
                   status |-> Get(report, "status", None)])
        s2 == [s1 EXCEPT !.state = "COMPLETE", !.has_red_flags = FALSE]
    IN  [session |-> s2,
         writes |-> <<"COMPLETE">>,
         result |->
            [status |-> "emergency",
             session_id |-> session.session_id,
             decision |-> "EMERGENCY_ESCALATION",
             triage_level |-> TriageLevelValue(s2.triage_level),
             red_flags_detected |-> s2.red_flag_details,
             task |-> "emergency_response",
             audit_trail |-> s2.protocol_steps]]

\* Mutant: saving the record of an escalated session assesses the level anew.
_handle_save_record_Reassess(session, report) ==
    LET s1 == add_step(session, "triage_record_saved",
                  [record_id |-> Get(report, "record_id", None),
                   status |-> Get(report, "status", None)])
        a == AssessLevel(s1.severity_score, s1.vitals_critical)
        s2 == [s1 EXCEPT !.state = "COMPLETE",
                         !.triage_level = a.triage_level,
                         !.recommendation = a.recommendation]
    IN  [session |-> s2,
         writes |-> <<"COMPLETE">>,
         result |->
            [status |-> "emergency",
             session_id |-> session.session_id,
             decision |-> "EMERGENCY_ESCALATION",
             triage_level |-> TriageLevelValue(s2.triage_level),
             red_flags_detected |-> s2.red_flag_details,
             task |-> "emergency_response",
             audit_trail |-> s2.protocol_steps]]

\* Mutant: the record is saved without an audit step.
_handle_save_record_Unlogged(session, report) ==
    LET s2 == [session EXCEPT !.state = "COMPLETE"]
    IN  [session |-> s2,
         writes |-> <<"COMPLETE">>,
         result |->
            [status |-> "emergency",
             session_id |-> session.session_id,
             decision |-> "EMERGENCY_ESCALATION",
             triage_level |-> TriageLevelValue(s2.triage_level),
             red_flags_detected |-> s2.red_flag_details,
             task |-> "emergency_response",
             audit_trail |-> s2.protocol_steps]]

\* MedicalTriageGuide._handle_save_record
_handle_save_record(session, report) ==
    LET s1 == add_step(session, "triage_record_saved",
                  [record_id |-> Get(report, "record_id", None),
                   status |-> Get(report, "status", None)])
        s2 == [s1 EXCEPT !.state = "COMPLETE"]
    IN  [session |-> s2,
         writes |-> <<"COMPLETE">>,
         result |->
            [status |-> "emergency",
             session_id |-> session.session_id,
             decision |-> "EMERGENCY_ESCALATION",
             triage_level |-> TriageLevelValue(s2.triage_level),
             red_flags_detected |-> s2.red_flag_details,
             task |-> "emergency_response",
             audit_trail |-> s2.protocol_steps]]

\* Mutant: a state without a branch of its own falls into the last handler.
TriageDispatch_ElseSave(session, report) ==
    IF session.state = "RED_FLAG_SCREENING"
    THEN _handle_red_flag_screening(session, report)
    ELSE IF session.state = "CHIEF_COMPLAINT"
    THEN _handle_chief_complaint(session, report)
    ELSE IF session.state = "MEDICAL_HISTORY"
    THEN _handle_medical_history(session, report)
    ELSE IF session.state = "VITAL_SIGNS"
    THEN _handle_vital_signs(session, report)
    ELSE IF session.state = "SEVERITY_ASSESSMENT"
    THEN _handle_severity_assessment(session, report)
    ELSE _handle_save_record(session, report)

\* The if/elif dispatch of continue_triage on session.state.
TriageDispatch(session, report) ==
    IF session.state = "RED_FLAG_SCREENING"
    THEN _handle_red_flag_screening(session, report)
    ELSE IF session.state = "CHIEF_COMPLAINT"
    THEN _handle_chief_complaint(session, report)
    ELSE IF session.state = "MEDICAL_HISTORY"
    THEN _handle_medical_history(session, report)
    ELSE IF session.state = "VITAL_SIGNS"
    THEN _handle_vital_signs(session, report)
    ELSE IF session.state = "SEVERITY_ASSESSMENT"
    THEN _handle_severity_assessment(session, report)
    ELSE IF session.state = "SAVE_RECORD"
    THEN _handle_save_record(session, report)
    ELSE [session |-> session,
          writes |-> <<>>,
          result |-> [status |-> "error",
                      message |-> <<"Unknown state: ", session.state>>]]

VARIABLES guide, pizza_sessions, triage_sessions, last, calls

vars == <<guide, pizza_sessions, triage_sessions, last, calls>>


\* TriageSession.to_dict
TriageToDict(session) ==
    [session_id |-> session.session_id,
     state |-> session.state,
     triage_level |-> IF session.triage_level # None
                      THEN TriageLevelValue(session.triage_level)
                      ELSE None,
     recommendation |-> session.recommendation,
     protocol_steps |-> session.protocol_steps]

\* Mutant: start_triage leaves the state to the dataclass default.
TriageInitialState_Default == "START"

\* The state start_triage passes to the TriageSession constructor.
TriageInitialState == "RED_FLAG_SCREENING"

\* MedicalTriageGuide.start_triage; session_id is the uuid4 prefix drawn.
start_triage(session_id) ==
    /\ guide = "triage"
    /\ LET session == add_step(TriageSession(session_id, TriageInitialState),
                               "triage_started", [session_id |-> session_id])
       IN  /\ triage_sessions' = DictPut(triage_sessions, session_id, session)
           /\ last' = [op |-> "start_triage",
                       session_id |-> session_id,
                       input |-> None,
                       from |-> None,
                       writes |-> <<TriageInitialState>>,
                       result |-> [status |-> "in_progress",
                                   session_id |-> session_id,
                                   task |-> "screen_red_flags",
                                   required_data |-> <<"symptoms_present", "symptom_details">>]]
    /\ UNCHANGED <<guide, pizza_sessions, calls>>

\* The payload of continue_triage / cancel_session for an absent session.
TriageNotFound(session_id, tail) ==
    [status |-> "error", message |-> <<"Session ", session_id, tail>>]

\* Mutant: continue_triage creates the session it does not find.
continue_triage_Create(session_id, agent_report) ==
    /\ guide = "triage"
    /\ LET session == IF session_id \in DOMAIN triage_sessions
                      THEN triage_sessions[session_id]
                      ELSE TriageSession(session_id, TriageInitialState)
           out == TriageDispatch(session, agent_report)
       IN  /\ triage_sessions' = DictPut(triage_sessions, session_id, out.session)
           /\ last' = [op |-> "continue_triage",
                       session_id |-> session_id,
                       input |-> agent_report,
                       from |-> IF session_id \in DOMAIN triage_sessions
                                THEN session.state ELSE None,
                       writes |-> out.writes,
                       result |-> out.result]
    /\ UNCHANGED <<guide, pizza_sessions, calls>>

\* MedicalTriageGuide.continue_triage
continue_triage(session_id, agent_report) ==
    /\ guide = "triage"
    /\ IF session_id \notin DOMAIN triage_sessions
       THEN /\ last' = [op |-> "continue_triage",
                        session_id |-> session_id,
                        input |-> agent_report,
                        from |-> None,
                        writes |-> <<>>,
                        result |-> TriageNotFound(session_id,
                                      " not found. Please start a new triage.")]
            /\ UNCHANGED triage_sessions
       ELSE LET session == triage_sessions[session_id]
                out == TriageDispatch(session, agent_report)
            IN  /\ triage_sessions' = DictPut(triage_sessions, session_id, out.session)
                /\ last' = [op |-> "continue_triage",
                            session_id |-> session_id,
                            input |-> agent_report,
                            from |-> session.state,
                            writes |-> out.writes,
                            result |-> out.result]
    /\ UNCHANGED <<guide, pizza_sessions, calls>>

\* Mutant: get_session takes the session out of the store (dict.pop).
get_session_Pop(session_id) ==
    /\ guide = "triage"
    /\ triage_sessions' = IF session_id \in DOMAIN triage_sessions
                          THEN DictDel(triage_sessions, session_id)
                          ELSE triage_sessions
    /\ last' = [op |-> "get_session",
                session_id |-> session_id,
                input |-> None,
                from |-> IF session_id \in DOMAIN triage_sessions
                         THEN triage_sessions[session_id].state
                         ELSE None,
                writes |-> <<>>,
                result |-> IF session_id \in DOMAIN triage_sessions
                           THEN TriageToDict(triage_sessions[session_id])
                           ELSE None]
    /\ UNCHANGED <<guide, pizza_sessions, calls>>

\* MedicalTriageGuide.get_session
get_session(session_id) ==
    /\ guide = "triage"
    /\ last' = [op |-> "get_session",
                session_id |-> session_id,
                input |-> None,
                from |-> IF session_id \in DOMAIN triage_sessions
                         THEN triage_sessions[session_id].state
                         ELSE None,
                writes |-> <<>>,
                result |-> IF session_id \in DOMAIN triage_sessions
                           THEN TriageToDict(triage_sessions[session_id])
                           ELSE None]
    /\ UNCHANGED <<guide, pizza_sessions, triage_sessions, calls>>

\* Mutant: cancel_session acknowledges the cancellation without deleting.
cancel_session_Keep(session_id) ==
    /\ guide = "triage"
    /\ last' = [op |-> "cancel_session",
                session_id |-> session_id,
                input |-> None,
                from |-> IF session_id \in DOMAIN triage_sessions
                         THEN triage_sessions[session_id].state
                         ELSE None,
                writes |-> <<>>,
                result |-> IF session_id \in DOMAIN triage_sessions
                           THEN [status |-> "cancelled",
                                 message |-> "Triage session cancelled."]
                           ELSE TriageNotFound(session_id, " not found.")]
    /\ UNCHANGED <<guide, pizza_sessions, triage_sessions, calls>>

\* MedicalTriageGuide.cancel_session
cancel_session(session_id) ==
    /\ guide = "triage"
    /\ IF session_id \in DOMAIN triage_sessions
       THEN /\ triage_sessions' = DictDel(triage_sessions, session_id)
            /\ last' = [op |-> "cancel_session",
                        session_id |-> session_id,
                        input |-> None,
                        from |-> triage_sessions[session_id].state,
                        writes |-> <<>>,
                        result |-> [status |-> "cancelled",
                                    message |-> "Triage session cancelled."]]
       ELSE /\ last' = [op |-> "cancel_session",
                        session_id |-> session_id,
                        input |-> None,
                        from |-> None,
                        writes |-> <<>>,
                        result |-> TriageNotFound(session_id, " not found.")]
            /\ UNCHANGED triage_sessions
    /\ UNCHANGED <<guide, pizza_sessions, calls>>

\* The state start_order passes to the PizzaOrder constructor.
PizzaInitialState == "CHOOSE_CRUST"

\* PizzaOrderGuide.start_order; session_id is the uuid4 prefix drawn.
start_order(session_id) ==
    /\ guide = "pizza"
    /\ pizza_sessions' = DictPut(pizza_sessions, session_id,
                                 PizzaOrder(session_id, PizzaInitialState))
    /\ last' = [op |-> "start_order",
                session_id |-> session_id,
                input |-> None,
                from |-> None,
                writes |-> <<PizzaInitialState>>,
                result |-> [status |-> "in_progress",
                            session_id |-> session_id,
                            action |-> "ask_user",
                            next_state |-> "CHOOSE_CRUST"]]
    /\ UNCHANGED <<guide, triage_sessions, calls>>

\* The payload of continue_order / cancel_order for an absent session.
PizzaNotFound(session_id, tail) ==
    [status |-> "error", message |-> <<"Session ", session_id, tail>>]

\* PizzaOrderGuide.continue_order
continue_order(session_id, user_response) ==
    /\ guide = "pizza"
    /\ IF session_id \notin DOMAIN pizza_sessions
       THEN /\ last' = [op |-> "continue_order",
                        session_id |-> session_id,
                        input |-> user_response,
                        from |-> None,
                        writes |-> <<>>,
                        result |-> PizzaNotFound(session_id,
                                      " not found. Please start a new order.")]
            /\ UNCHANGED pizza_sessions
       ELSE LET order == pizza_sessions[session_id]
                out == PizzaDispatch(order, Strip(user_response))
            IN  /\ pizza_sessions' =
                      IF out.deleted
                      THEN DictDel(pizza_sessions, session_id)
                      ELSE DictPut(pizza_sessions, session_id, out.order)
                /\ last' = [op |-> "continue_order",
                            session_id |-> session_id,
                            input |-> user_response,
                            from |-> order.state,
                            writes |-> out.writes,
                            result |-> out.result]
    /\ UNCHANGED <<guide, triage_sessions, calls>>

\* PizzaOrderGuide.get_order
get_order(session_id) ==
    /\ guide = "pizza"
    /\ last' = [op |-> "get_order",
                session_id |-> session_id,
                input |-> None,
                from |-> IF session_id \in DOMAIN pizza_sessions
                         THEN pizza_sessions[session_id].state
                         ELSE None,
                writes |-> <<>>,
                result |-> IF session_id \in DOMAIN pizza_sessions
                           THEN PizzaToDict(pizza_sessions[session_id])
                           ELSE None]
    /\ UNCHANGED <<guide, pizza_sessions, triage_sessions, calls>>

\* PizzaOrderGuide.cancel_order
cancel_order(session_id) ==
    /\ guide = "pizza"
    /\ IF session_id \in DOMAIN pizza_sessions
       THEN /\ pizza_sessions' = DictDel(pizza_sessions, session_id)
            /\ last' = [op |-> "cancel_order",
                        session_id |-> session_id,
                        input |-> None,
                        from |-> pizza_sessions[session_id].state,
                        writes |-> <<>>,
                        result |-> [status |-> "cancelled",
                                    message |-> "Order cancelled successfully."]]
       ELSE /\ last' = [op |-> "cancel_order",
                        session_id |-> session_id,
                        input |-> None,
                        from |-> None,
                        writes |-> <<>>,
                        result |-> PizzaNotFound(session_id, " not found.")]
            /\ UNCHANGED pizza_sessions
    /\ UNCHANGED <<guide, triage_sessions, calls>>

\* No calls are running side by side.
NoCalls == [active |-> FALSE]

\* No call has been made yet.
NoCall ==
    [op |-> None, session_id |-> None, input |-> None, from |-> None,
     writes |-> <<>>, result |-> None]

\* PizzaOrderGuide.__init__ / MedicalTriageGuide.__init__: a process runs one
\* of the two guides, with an empty session dictionary.
Init ==
    /\ guide \in {"pizza", "triage"}
    /\ pizza_sessions = EmptyDict
    /\ triage_sessions = EmptyDict
    /\ last = NoCall
    /\ calls = NoCalls

Next ==
    \/ \E session_id \in SessionIds : start_order(session_id)
    \/ \E session_id \in SessionIds, user_response \in Responses :
          continue_order(session_id, user_response)
    \/ \E session_id \in SessionIds : get_order(session_id)
    \/ \E session_id \in SessionIds : cancel_order(session_id)
    \/ \E session_id \in SessionIds : start_triage(session_id)
    \/ \E session_id \in SessionIds, agent_report \in Reports :
          continue_triage(session_id, agent_report)
    \/ \E session_id \in SessionIds : get_session(session_id)
    \/ \E session_id \in SessionIds : cancel_session(session_id)

Spec == Init /\ [][Next]_vars

(***************************************************************************)
(* Two calls on one session running side by side.                          *)
(*                                                                         *)
(* Neither guide takes a lock, and a call holds a reference to the session *)
(* object it found in the dictionary.  When two calls for the same id run  *)
(* in two threads, their statements interleave.  A call is split here at   *)
(* its accesses to the dictionary and to the session object: the           *)
(* membership test, the fetch, the read of state for the dispatch, each    *)
(* group of field writes, each audit append, each severity increment, each *)
(* state write, the reads that build the returned payload, and the del.    *)
(* Statements between two accesses are local to the call.                  *)
(***************************************************************************)

Threads == {"A", "B"}

\* The calls two threads may make on a session of the guide in use.
PizzaCalls ==
    {[op |-> "continue", input |-> r] : r \in Responses}
        \cup {[op |-> "cancel", input |-> <<>>]}

TriageCalls ==
    {[op |-> "continue", input |-> r] : r \in Reports}
        \cup {[op |-> "cancel", input |-> EmptyDict]}

Calls == IF guide = "pizza" THEN PizzaCalls ELSE TriageCalls

\* A call that has been entered and has executed nothing yet: pc is the
\* statement it executes next, at the state it read for the dispatch, todo
\* the statements of its handler still to run, writes the values it has
\* assigned to state, result what it returned or raised.
Frame(call) ==
    [op |-> call.op, input |-> call.input, pc |-> "check", at |-> None,
     todo |-> <<>>, writes |-> <<>>, result |-> EmptyDict]

\* self.sessions of the guide in use.
Store == IF guide = "pizza" THEN pizza_sessions ELSE triage_sessions

\* The session object the running calls refer to: the dictionary's entry,
\* or the object that was deleted from the dictionary under them.
Obj ==
    IF calls.session_id \in DOMAIN Store THEN Store[calls.session_id] ELSE calls.orphan

\* Thread t has executed a statement: its frame becomes frame, the session
\* object is left as obj, and deleted tells whether the statement removed
\* the dictionary entry.
Commit(t, frame, obj, deleted) ==
    LET sid == calls.session_id
        present == sid \in DOMAIN Store
        sessions == IF ~present THEN Store
                    ELSE IF deleted THEN DictDel(Store, sid)
                    ELSE DictPut(Store, sid, obj)
    IN  /\ pizza_sessions' = IF guide = "pizza" THEN sessions ELSE pizza_sessions
        /\ triage_sessions' = IF guide = "triage" THEN sessions ELSE triage_sessions
        /\ calls' = [calls EXCEPT !.frames[t] = frame,
                                  !.orphan = IF present /\ ~deleted THEN @ ELSE obj]
        /\ UNCHANGED <<guide, last>>

\* An exception propagates out of the call.
Raise(frame, exception) ==
    [frame EXCEPT !.pc = "done", !.result = [exception |-> exception]]

Return(frame, result) == [frame EXCEPT !.pc = "done", !.result = result]

\* Two threads enter a call each on the session session_id.
enter_calls(session_id, a, b) ==
    /\ ~calls.active
    /\ session_id \in DOMAIN Store
    /\ calls' = [active |-> TRUE,
                 session_id |-> session_id,
                 base |-> Store,
                 orphan |-> EmptyDict,
                 frames |-> [t \in Threads |-> Frame(IF t = "A" THEN a ELSE b)]]
    /\ last' = NoCall
    /\ UNCHANGED <<guide, pizza_sessions, triage_sessions>>

\* "if session_id not in self.sessions" of continue_order / continue_triage
\* and "if session_id in self.sessions" of cancel_order / cancel_session.
call_check(t) ==
    /\ calls.active
    /\ calls.frames[t].pc = "check"
    /\ LET f == calls.frames[t]
           sid == calls.session_id
       IN  IF sid \in DOMAIN Store
           THEN Commit(t, [f EXCEPT !.pc = IF f.op = "continue" THEN "fetch" ELSE "delete"],
                       Obj, FALSE)
           ELSE Commit(t,
                  Return(f,
                    IF guide = "pizza"
                    THEN PizzaNotFound(sid, IF f.op = "continue"
                                            THEN " not found. Please start a new order."
                                            ELSE " not found.")
                    ELSE TriageNotFound(sid, IF f.op = "continue"
                                             THEN " not found. Please start a new triage."
                                             ELSE " not found.")),
                  Obj, FALSE)

\* "order = self.sessions[session_id]": KeyError when the entry has been
\* deleted since the membership test.
call_fetch(t) ==
    /\ calls.active
    /\ calls.frames[t].pc = "fetch"
    /\ LET f == calls.frames[t]
       IN  IF calls.session_id \in DOMAIN Store
           THEN Commit(t, [f EXCEPT !.pc = "dispatch"], Obj, FALSE)
           ELSE Commit(t, Raise(f, "KeyError"), Obj, FALSE)

\* The statements of a triage handler in program order, as the accesses to
\* the session object they make.
TriageProgram(at, report) ==
    CASE at = "RED_FLAG_SCREENING" ->
            IF Get(Get(report, "classification", EmptyDict),
                   "requires_emergency_protocol", FALSE)
            THEN <<"checked", "audit1", "flags", "state1", "level", "audit2",
                   "state2", "return">>
            ELSE <<"checked", "audit1", "state1", "audit2", "return">>
      [] at = "CHIEF_COMPLAINT" -> <<"fields", "audit1", "state1", "return">>
      [] at = "MEDICAL_HISTORY" ->
            IF Len(Get(report, "high_risk_conditions", <<>>)) > 0
            THEN <<"fields", "audit1", "severity", "state1", "return">>
            ELSE <<"fields", "audit1", "state1", "return">>
      [] at = "VITAL_SIGNS" ->
            IF Len(Get(report, "critical_values", <<>>)) > 0
            THEN <<"fields", "audit1", "severity", "state1", "return">>
            ELSE <<"fields", "audit1", "state1", "return">>
      [] at = "SEVERITY_ASSESSMENT" -> <<"fields", "audit1", "state1", "return">>
      [] at = "SAVE_RECORD" -> <<"audit1", "state1", "return">>

\* The if/elif chain of continue_order / continue_triage: the read of the
\* session's state that selects the handler.
call_dispatch(t) ==
    /\ calls.active
    /\ calls.frames[t].pc = "dispatch"
    /\ LET f == calls.frames[t]
           state == Obj.state
       IN  IF guide = "pizza"
           THEN IF state \in {"CHOOSE_CRUST", "CHOOSE_CATEGORY", "CHOOSE_TOPPINGS",
                              "CHOOSE_SIZE", "CONFIRM"}
                THEN Commit(t, [f EXCEPT !.pc = "match", !.at = state], Obj, FALSE)
                ELSE Commit(t, Return([f EXCEPT !.at = state],
                                      PizzaDispatch(Obj, Strip(f.input)).result),
                            Obj, FALSE)
           ELSE IF state \in {"RED_FLAG_SCREENING", "CHIEF_COMPLAINT", "MEDICAL_HISTORY",
                              "VITAL_SIGNS", "SEVERITY_ASSESSMENT", "SAVE_RECORD"}
                THEN Commit(t, [f EXCEPT !.pc = "run", !.at = state,
                                         !.todo = TriageProgram(state, f.input)],
                            Obj, FALSE)
                ELSE Commit(t, Return([f EXCEPT !.at = state],
                                      TriageDispatch(Obj, f.input).result),
                            Obj, FALSE)

\* The payload a pizza handler returns, built from the order as it is when
\* the handler reads it.
PizzaReturn(at, o, h) ==
    CASE at = "CHOOSE_SIZE" -> [h.result EXCEPT !.order_summary = _generate_summary(o)]
      [] at = "CONFIRM" -> [h.result EXCEPT !.summary = _generate_summary(o),
                                           !.order = PizzaToDict(o)]
      [] OTHER -> h.result

\* One statement of the pizza handler the call dispatched to: the match of
\* the response with the write of the matched option, the write of state,
\* the return.
order_handler_step(t) ==
    /\ calls.active
    /\ guide = "pizza"
    /\ calls.frames[t].pc \in {"match", "state", "return"}
    /\ LET f == calls.frames[t]
           o == Obj
           h == PizzaDispatch([o EXCEPT !.state = f.at], Strip(f.input))
       IN  CASE f.pc = "match" ->
                  IF h.deleted
                  THEN Commit(t, [f EXCEPT !.pc = "delete"], o, FALSE)
                  ELSE IF h.writes = <<>>
                  THEN Commit(t, Return(f, h.result), o, FALSE)
                  ELSE Commit(t, [f EXCEPT !.pc = "state"],
                              [o EXCEPT !.crust = h.order.crust,
                                        !.category = h.order.category,
                                        !.toppings = h.order.toppings,
                                        !.size = h.order.size],
                              FALSE)
             [] f.pc = "state" ->
                  Commit(t, [f EXCEPT !.pc = "return", !.writes = Append(@, h.writes[1])],
                         [o EXCEPT !.state = h.writes[1]], FALSE)
             [] f.pc = "return" ->
                  Commit(t, Return(f, PizzaReturn(f.at, o, h)), o, FALSE)

\* The fields a group of field writes of a triage handler assigns.
TriageFields(at, tag) ==
    CASE tag = "checked" -> {"red_flags_checked"}
      [] tag = "flags" -> {"has_red_flags", "red_flag_details"}
      [] tag = "level" -> {"triage_level", "recommendation"}
      [] tag = "fields" /\ at = "CHIEF_COMPLAINT" -> {"chief_complaint"}
      [] tag = "fields" /\ at = "MEDICAL_HISTORY" -> {"medical_history"}
      [] tag = "fields" /\ at = "VITAL_SIGNS" -> {"vitals", "vitals_critical"}
      [] tag = "fields" /\ at = "SEVERITY_ASSESSMENT" -> {"triage_level", "recommendation"}

\* The session object after one statement of the handler for state at has
\* been executed on the object o.
TriageStatement(tag, at, o, report) ==
    LET h == TriageDispatch([o EXCEPT !.state = at], report)
        n == Len(o.protocol_steps)
    IN  CASE tag \in {"checked", "flags", "level", "fields"} ->
                [field \in DOMAIN o |->
                    IF field \in TriageFields(at, tag) THEN h.session[field] ELSE o[field]]
          [] tag = "audit1" /\ at = "SEVERITY_ASSESSMENT" ->
                add_step(o, "triage_completed",
                         [triage_level |-> TriageLevelValue(o.triage_level),
                          recommendation |-> o.recommendation])
          [] tag = "audit1" /\ at # "SEVERITY_ASSESSMENT" ->
                [o EXCEPT !.protocol_steps = Append(@, h.session.protocol_steps[n + 1])]
          [] tag = "audit2" ->
                [o EXCEPT !.protocol_steps = Append(@, h.session.protocol_steps[n + 2])]
          [] tag = "severity" ->
                [o EXCEPT !.severity_score = h.session.severity_score]
          [] tag = "state1" -> [o EXCEPT !.state = h.writes[1]]
          [] tag = "state2" -> [o EXCEPT !.state = h.writes[2]]

\* The payload a triage handler returns, built from the session as it is
\* when the handler reads it.
TriageReturn(at, o, report) ==
    LET h == TriageDispatch([o EXCEPT !.state = at], report)
    IN  CASE at = "RED_FLAG_SCREENING" ->
                IF "audit_trail" \in DOMAIN h.result
                THEN [h.result EXCEPT !.audit_trail = o.protocol_steps]
                ELSE h.result
          [] at \in {"CHIEF_COMPLAINT", "MEDICAL_HISTORY"} -> h.result
          [] at = "VITAL_SIGNS" ->
                [h.result EXCEPT !.data_for_assessment =
                    [red_flags |-> o.red_flag_details,
                     chief_complaint |-> o.chief_complaint,
                     medical_history |-> o.medical_history,
                     vitals |-> o.vitals,
                     severity_score |-> o.severity_score]]
          [] at = "SEVERITY_ASSESSMENT" ->
                [h.result EXCEPT
                    !.triage_level = TriageLevelValue(o.triage_level),
                    !.recommendation = o.recommendation,
                    !.protocol_compliance =
                        [all_steps_completed |-> TRUE,
                         red_flags_screened |-> o.red_flags_checked,
                         vitals_obtained |-> (DOMAIN o.vitals # {}),
                         history_reviewed |-> (DOMAIN o.medical_history # {})],
                    !.audit_trail = o.protocol_steps]
          [] at = "SAVE_RECORD" ->
                [h.result EXCEPT
                    !.triage_level = TriageLevelValue(o.triage_level),
                    !.red_flags_detected = o.red_flag_details,
                    !.audit_trail = o.protocol_steps]

\* One statement of the triage handler the call dispatched to.
triage_handler_step(t) ==
    /\ calls.active
    /\ guide = "triage"
    /\ calls.frames[t].pc = "run"
    /\ LET f == calls.frames[t]
           o == Obj
           tag == Head(f.todo)
           o1 == TriageStatement(tag, f.at, o, f.input)
       IN  IF tag = "return"
           THEN Commit(t, Return(f, TriageReturn(f.at, o, f.input)), o, FALSE)
           ELSE Commit(t,
                       [f EXCEPT !.todo = Tail(@),
                                 !.writes = IF tag \in {"state1", "state2"}
                                            THEN Append(@, o1.state) ELSE @],
                       o1, FALSE)

\* "del self.sessions[session_id]" of cancel_order / cancel_session, and of
\* _handle_confirmation when the order is declined: KeyError when the entry
\* is no longer there.
call_delete(t) ==
    /\ calls.active
    /\ calls.frames[t].pc = "delete"
    /\ LET f == calls.frames[t]
           sid == calls.session_id
       IN  IF sid \in DOMAIN Store
           THEN Commit(t,
                  Return(f,
                    IF f.op = "continue"
                    THEN [status |-> "cancelled", session_id |-> sid, action |-> "respond"]
                    ELSE IF guide = "pizza"
                    THEN [status |-> "cancelled",
                          message |-> "Order cancelled successfully."]
                    ELSE [status |-> "cancelled",
                          message |-> "Triage session cancelled."]),
                  Obj, TRUE)
           ELSE Commit(t, Raise(f, "KeyError"), Obj, FALSE)

\* One client works on one session with sequential calls and then makes
\* two calls on it side by side.
ConcurrentNext ==
    \/ \E session_id \in SessionIds :
          ~calls.active /\ DOMAIN pizza_sessions = {} /\ start_order(session_id)
    \/ \E session_id \in SessionIds, user_response \in Responses :
          ~calls.active /\ continue_order(session_id, user_response)
    \/ \E session_id \in SessionIds :
          ~calls.active /\ DOMAIN triage_sessions = {} /\ start_triage(session_id)
    \/ \E session_id \in SessionIds, agent_report \in Reports :
          ~calls.active /\ continue_triage(session_id, agent_report)
    \/ \E session_id \in SessionIds, a \in Calls, b \in Calls : enter_calls(session_id, a, b)
    \/ \E t \in Threads : call_check(t)
    \/ \E t \in Threads : call_fetch(t)
    \/ \E t \in Threads : call_dispatch(t)
    \/ \E t \in Threads : order_handler_step(t)
    \/ \E t \in Threads : triage_handler_step(t)
    \/ \E t \in Threads : call_delete(t)

ConcurrentSpec == Init /\ [][ConcurrentNext]_vars



(***************************************************************************)
(* Properties                                                              *)
(***************************************************************************)

IsContinue(call) == call.op \in {"continue_order", "continue_triage"}

\* The states continue_triage / continue_order dispatch to a handler.
TriageHandled ==
    {"RED_FLAG_SCREENING", "CHIEF_COMPLAINT", "MEDICAL_HISTORY", "VITAL_SIGNS",
     "SEVERITY_ASSESSMENT", "SAVE_RECORD"}

PizzaHandled ==
    {"CHOOSE_CRUST", "CHOOSE_CATEGORY", "CHOOSE_TOPPINGS", "CHOOSE_SIZE", "CONFIRM"}

\* C1: a single continue call assigns the session's state at most once; in
\* particular the escalating red-flag call does not pass through
\* EMERGENCY_ESCALATION and SAVE_RECORD in one call.
C1_AtMostOneAdvance == IsContinue(last) => Len(last.writes) <= 1

\* C2: every continue call that reaches a transition function appends
\* exactly one entry to the session's audit trail.
C2_OneAuditEntryPerCall ==
    [][\A sid \in SessionIds :
          (/\ last'.op = "continue_triage"
           /\ last'.session_id = sid
           /\ sid \in DOMAIN triage_sessions
           /\ triage_sessions[sid].state \in TriageHandled)
          => /\ sid \in DOMAIN triage_sessions'
             /\ Len(triage_sessions'[sid].protocol_steps)
                   = Len(triage_sessions[sid].protocol_steps) + 1]_vars

\* C3: a continue call against a session in COMPLETE fails with an error
\* of its own, which is neither the session-not-found error nor the
\* defensive unknown-state error.
C3_SessionTerminated ==
    (IsContinue(last) /\ last.from = "COMPLETE")
    => /\ last.result.status = "error"
       /\ last.result.message[1] \notin {"Session ", "Unknown state: "}

\* The declared state sets of the two variants.
PizzaStates ==
    {"CHOOSE_CRUST", "CHOOSE_CATEGORY", "CHOOSE_TOPPINGS", "CHOOSE_SIZE",
     "CONFIRM", "COMPLETE"}

TriageStates ==
    {"RED_FLAG_SCREENING", "CHIEF_COMPLAINT", "MEDICAL_HISTORY", "VITAL_SIGNS",
     "SEVERITY_ASSESSMENT", "SAVE_RECORD", "COMPLETE"}

\* C4: every stored session's state is a member of the declared state set
\* of its variant; the dataclass default START is never stored.
C4_StateInDeclaredSet ==
    /\ \A sid \in DOMAIN pizza_sessions : pizza_sessions[sid].state \in PizzaStates
    /\ \A sid \in DOMAIN triage_sessions : triage_sessions[sid].state \in TriageStates

\* C4 witness: the escalating call, which assigns EMERGENCY_ESCALATION on
\* its way, has returned and the stored state is SAVE_RECORD.
C4_Witness ==
    /\ last.op = "continue_triage"
    /\ last.from = "RED_FLAG_SCREENING"
    /\ last.writes = <<"EMERGENCY_ESCALATION", "SAVE_RECORD">>
    /\ triage_sessions[last.session_id].state = "SAVE_RECORD"


\* The report carries requires_emergency_protocol = true.
RequiresEmergency(report) ==
    /\ "classification" \in DOMAIN report
    /\ "requires_emergency_protocol" \in DOMAIN report.classification
    /\ report.classification.requires_emergency_protocol = TRUE

\* The step is a start_triage call that assigned session id sid.
TriageRestarted(sid) == last'.op = "start_triage" /\ last'.session_id = sid

EscalationBranchStates == {"SAVE_RECORD", "COMPLETE"}

\* C5: a continue call on a session in RED_FLAG_SCREENING whose report
\* requires the emergency protocol sets has_red_flags and leaves the session
\* in SAVE_RECORD; an escalated session is only ever in SAVE_RECORD or
\* COMPLETE, whatever is submitted afterwards.
C5_EscalationBranch ==
    /\ [](\A sid \in DOMAIN triage_sessions :
            triage_sessions[sid].has_red_flags
            => triage_sessions[sid].state \in EscalationBranchStates)
    /\ [][\A sid \in SessionIds :
            /\ (/\ sid \in DOMAIN triage_sessions
                /\ triage_sessions[sid].state = "RED_FLAG_SCREENING"
                /\ last'.op = "continue_triage"
                /\ last'.session_id = sid
                /\ RequiresEmergency(last'.input))
               => /\ sid \in DOMAIN triage_sessions'
                  /\ triage_sessions'[sid].has_red_flags
                  /\ triage_sessions'[sid].state = "SAVE_RECORD"
            /\ (/\ sid \in DOMAIN triage_sessions
                /\ triage_sessions[sid].has_red_flags
                /\ sid \in DOMAIN triage_sessions'
                /\ ~TriageRestarted(sid))
               => /\ triage_sessions'[sid].has_red_flags
                  /\ triage_sessions'[sid].state \in EscalationBranchStates]_vars

\* C5 witness: an escalated session has received a further report and is
\* in COMPLETE, with no normal-path step in its audit trail.
C5_Witness ==
    /\ last.op = "continue_triage"
    /\ last.from = "SAVE_RECORD"
    /\ triage_sessions[last.session_id].has_red_flags
    /\ triage_sessions[last.session_id].state = "COMPLETE"
    /\ \A i \in 1..Len(triage_sessions[last.session_id].protocol_steps) :
          triage_sessions[last.session_id].protocol_steps[i].step
             \notin {"chief_complaint_gathered", "medical_history_checked",
                     "vital_signs_obtained", "triage_completed"}

\* C6: once has_red_flags is true it stays true for as long as the session
\* lives, whatever continue inputs follow.
C6_EscalationMonotonic ==
    [][\A sid \in SessionIds :
          (/\ sid \in DOMAIN triage_sessions
           /\ triage_sessions[sid].has_red_flags
           /\ sid \in DOMAIN triage_sessions'
           /\ ~TriageRestarted(sid))
          => triage_sessions'[sid].has_red_flags]_vars

\* C6 witness: an escalated session has gone through a further continue
\* call with a report that does not require the emergency protocol, and is
\* still escalated.
C6_Witness ==
    /\ last.op = "continue_triage"
    /\ last.from = "SAVE_RECORD"
    /\ ~RequiresEmergency(last.input)
    /\ triage_sessions[last.session_id].has_red_flags


\* The step is a call of operation op on session id sid.
Called(op, sid) == last'.op = op /\ last'.session_id = sid

\* C7: cancel on a session in a non-terminal state removes it from the
\* store and returns status cancelled; while the id is absent every continue
\* with it returns the session-not-found error and changes nothing, get
\* returns None, and only a start call can bring the id back.
C7_CancelRemoves ==
    [][\A sid \in SessionIds :
          /\ (/\ Called("cancel_session", sid)
              /\ sid \in DOMAIN triage_sessions
              /\ triage_sessions[sid].state # "COMPLETE")
             => /\ triage_sessions' = DictDel(triage_sessions, sid)
                /\ last'.result.status = "cancelled"
          /\ (/\ Called("cancel_order", sid)
              /\ sid \in DOMAIN pizza_sessions
              /\ pizza_sessions[sid].state # "COMPLETE")
             => /\ pizza_sessions' = DictDel(pizza_sessions, sid)
                /\ last'.result.status = "cancelled"
          /\ (Called("continue_triage", sid) /\ sid \notin DOMAIN triage_sessions)
             => /\ last'.result.status = "error"
                /\ last'.result.message
                      = <<"Session ", sid, " not found. Please start a new triage.">>
                /\ triage_sessions' = triage_sessions
          /\ (Called("continue_order", sid) /\ sid \notin DOMAIN pizza_sessions)
             => /\ last'.result.status = "error"
                /\ last'.result.message
                      = <<"Session ", sid, " not found. Please start a new order.">>
                /\ pizza_sessions' = pizza_sessions
          /\ (Called("get_session", sid) /\ sid \notin DOMAIN triage_sessions)
             => last'.result = None
          /\ (Called("get_order", sid) /\ sid \notin DOMAIN pizza_sessions)
             => last'.result = None
          /\ (sid \notin DOMAIN triage_sessions /\ sid \in DOMAIN triage_sessions')
             => Called("start_triage", sid)
          /\ (sid \notin DOMAIN pizza_sessions /\ sid \in DOMAIN pizza_sessions')
             => Called("start_order", sid)]_vars

\* C7 witness: a triage session awaiting vital signs has just been
\* cancelled and is gone from the store.
C7_Witness ==
    /\ last.op = "cancel_session"
    /\ last.from = "VITAL_SIGNS"
    /\ last.result.status = "cancelled"
    /\ last.session_id \notin DOMAIN triage_sessions

\* The stripped input names a member of the option list: some option
\* contains it or is contained in it, ignoring case.
Names(input, options) ==
    \E i \in 1..Len(options) :
       \/ Contains(Lower(Chars[options[i]]), Lower(input))
       \/ Contains(Lower(input), Lower(Chars[options[i]]))

\* No crust, category, topping or size resolves from the response in the
\* order's current state.
Unresolved(order, user_response) ==
    LET response == Strip(user_response)
        parts == Split(Replace(response, StrAnd, <<",">>), ",")
    IN  \/ order.state = "CHOOSE_CRUST" /\ ~Names(response, CRUSTS)
        \/ /\ order.state = "CHOOSE_CATEGORY"
           /\ ~Contains(StrVeg, Lower(response))
           /\ ~Contains(StrMeat, Lower(response))
        \/ /\ order.state = "CHOOSE_TOPPINGS"
           /\ \A i \in 1..Len(parts) :
                 ~Names(Strip(parts[i]),
                        IF order.category = "vegetarian"
                        THEN VEGETARIAN_TOPPINGS ELSE MEAT_TOPPINGS)
        \/ order.state = "CHOOSE_SIZE" /\ ~Names(response, SIZES)

StrXyz == <<"x", "y", "z">>

\* C8: a continue_order call whose response resolves to no option of the
\* current state returns in_progress with stay_in_state set and leaves the
\* store, the session's state and its fields unchanged (so the retry can be
\* repeated); 'xyz' in CHOOSE_CATEGORY is such a response.
C8_StayInState ==
    [][\A sid \in SessionIds :
          (/\ Called("continue_order", sid)
           /\ sid \in DOMAIN pizza_sessions
           /\ \/ Unresolved(pizza_sessions[sid], last'.input)
              \/ (pizza_sessions[sid].state = "CHOOSE_CATEGORY" /\ last'.input = StrXyz))
          => /\ pizza_sessions' = pizza_sessions
             /\ last'.result.status = "in_progress"
             /\ "stay_in_state" \in DOMAIN last'.result
             /\ last'.result.stay_in_state = TRUE]_vars

\* C8 witness: after 'thin' was accepted, 'xyz' was submitted in
\* CHOOSE_CATEGORY and the session is still there.
C8_Witness ==
    /\ last.op = "continue_order"
    /\ last.input = StrXyz
    /\ last.from = "CHOOSE_CATEGORY"
    /\ last.session_id \in DOMAIN pizza_sessions
    /\ pizza_sessions[last.session_id].state = "CHOOSE_CATEGORY"
    /\ pizza_sessions[last.session_id].crust = "Thin"
    /\ pizza_sessions[last.session_id].category = None

\* The report field each mandatory triage collection state asks for.
RequiredField ==
    [state \in {"CHIEF_COMPLAINT", "MEDICAL_HISTORY", "VITAL_SIGNS"} |->
        CASE state = "CHIEF_COMPLAINT" -> "chief_complaint"
          [] state = "MEDICAL_HISTORY" -> "medical_history"
          [] state = "VITAL_SIGNS" -> "vitals"]

\* C9: a mandatory collection state advances only when the data it requires
\* is in the continue input: CHIEF_COMPLAINT, MEDICAL_HISTORY and VITAL_SIGNS
\* do not advance on a report without chief_complaint, medical_history or
\* vitals, and no pizza state advances on an unresolved response.
C9_AdvanceOnlyWithData ==
    /\ (/\ last.op = "continue_triage"
        /\ last.from \in DOMAIN RequiredField
        /\ RequiredField[last.from] \notin DOMAIN last.input)
       => triage_sessions[last.session_id].state = last.from
    /\ (/\ last.op = "continue_order"
        /\ last.from \in PizzaHandled \ {"CONFIRM"}
        /\ Unresolved([state |-> last.from, category |-> "vegetarian"], last.input)
        /\ Unresolved([state |-> last.from, category |-> "meat"], last.input))
       => /\ last.session_id \in DOMAIN pizza_sessions
          /\ pizza_sessions[last.session_id].state = last.from

\* The report carries an explicit record-persisted acknowledgment.
Acknowledged(report) == "record_id" \in DOMAIN report /\ report.record_id # None

\* C10: an escalated session in SAVE_RECORD reaches COMPLETE only on a
\* report that carries the record-persisted acknowledgment.
C10_CompleteOnlyWhenSaved ==
    (/\ last.op = "continue_triage"
     /\ last.from = "SAVE_RECORD"
     /\ ~Acknowledged(last.input))
    => triage_sessions[last.session_id].state # "COMPLETE"

\* The mandatory states of each variant in table order, the ordinary
\* terminal state last.
PizzaOrderOfStates ==
    <<"CHOOSE_CRUST", "CHOOSE_CATEGORY", "CHOOSE_TOPPINGS", "CHOOSE_SIZE",
      "CONFIRM", "COMPLETE">>

TriageOrderOfStates ==
    <<"RED_FLAG_SCREENING", "CHIEF_COMPLAINT", "MEDICAL_HISTORY", "VITAL_SIGNS",
      "SEVERITY_ASSESSMENT", "COMPLETE">>

\* The position of a state in a table.
IndexIn(table, state) == CHOOSE i \in 1..Len(table) : table[i] = state

\* From state a session either stays or moves to the next state of the table.
StaysOrSucceeds(table, from, to) ==
    /\ \E i \in 1..Len(table) : table[i] = from
    /\ \E i \in 1..Len(table) : table[i] = to
    /\ IndexIn(table, to) \in {IndexIn(table, from), IndexIn(table, from) + 1}

\* The step names of a session's audit trail, in order.
StepNames(session) ==
    [i \in 1..Len(session.protocol_steps) |-> session.protocol_steps[i].step]

\* The audit trail of a triage session that went through every mandatory
\* state once, in table order.
OrdinaryTrail ==
    <<"triage_started", "red_flag_screening", "red_flag_screening_passed",
      "chief_complaint_gathered", "medical_history_checked",
      "vital_signs_obtained", "triage_completed">>

\* C11: a session reaches the ordinary terminal state COMPLETE only after
\* having been in every mandatory state in table order, none skipped or
\* revisited: a new session starts in the first state of its table, a
\* non-escalated session only ever stays or moves to the next state of the
\* table, and a completed one carries what each state records.
C11_LinearCompletion ==
    /\ [](/\ \A sid \in DOMAIN pizza_sessions :
                pizza_sessions[sid].state = "COMPLETE"
                => /\ pizza_sessions[sid].crust # None
                   /\ pizza_sessions[sid].category # None
                   /\ pizza_sessions[sid].toppings # <<>>
                   /\ pizza_sessions[sid].size # None
          /\ \A sid \in DOMAIN triage_sessions :
                (/\ triage_sessions[sid].state = "COMPLETE"
                 /\ ~triage_sessions[sid].has_red_flags)
                => StepNames(triage_sessions[sid]) = OrdinaryTrail)
    /\ [][\A sid \in SessionIds :
            /\ (sid \in DOMAIN pizza_sessions'
                 /\ (sid \notin DOMAIN pizza_sessions \/ Called("start_order", sid)))
               => pizza_sessions'[sid].state = PizzaOrderOfStates[1]
            /\ (sid \in DOMAIN triage_sessions'
                 /\ (sid \notin DOMAIN triage_sessions \/ Called("start_triage", sid)))
               => triage_sessions'[sid].state = TriageOrderOfStates[1]
            /\ (/\ sid \in DOMAIN pizza_sessions
                 /\ sid \in DOMAIN pizza_sessions'
                 /\ ~Called("start_order", sid))
               => StaysOrSucceeds(PizzaOrderOfStates, pizza_sessions[sid].state,
                                  pizza_sessions'[sid].state)
            /\ (/\ sid \in DOMAIN triage_sessions
                 /\ sid \in DOMAIN triage_sessions'
                 /\ ~Called("start_triage", sid)
                 /\ ~triage_sessions'[sid].has_red_flags)
               => StaysOrSucceeds(TriageOrderOfStates, triage_sessions[sid].state,
                                  triage_sessions'[sid].state)]_vars

\* C11 witness: a non-escalated triage session has just been completed by
\* the severity assessment, with the whole ordinary trail behind it.
C11_Witness ==
    /\ last.op = "continue_triage"
    /\ last.from = "SEVERITY_ASSESSMENT"
    /\ last.result.status = "complete"
    /\ triage_sessions[last.session_id].state = "COMPLETE"
    /\ ~triage_sessions[last.session_id].has_red_flags
    /\ StepNames(triage_sessions[last.session_id]) = OrdinaryTrail

\* C14: a start call never assigns an id that a session in the store already
\* holds: the id it returns was absent before the call, every session that
\* was in the store is still there untouched, and the store has grown by one.
C14_FreshSessionId ==
    [][\A sid \in SessionIds :
          /\ Called("start_order", sid)
             => /\ sid \notin DOMAIN pizza_sessions
                /\ \A other \in DOMAIN pizza_sessions :
                      /\ other \in DOMAIN pizza_sessions'
                      /\ pizza_sessions'[other] = pizza_sessions[other]
                /\ Cardinality(DOMAIN pizza_sessions')
                      = Cardinality(DOMAIN pizza_sessions) + 1
          /\ Called("start_triage", sid)
             => /\ sid \notin DOMAIN triage_sessions
                /\ \A other \in DOMAIN triage_sessions :
                      /\ other \in DOMAIN triage_sessions'
                      /\ triage_sessions'[other] = triage_sessions[other]
                /\ Cardinality(DOMAIN triage_sessions')
                      = Cardinality(DOMAIN triage_sessions) + 1]_vars

\* C15: once a continue call has brought a session to its terminal state and
\* returned the final result (status complete or emergency), the session is
\* gone from the store, so the store holds no session in COMPLETE.
C15_TerminalRetired ==
    /\ (IsContinue(last) /\ last.result.status \in {"complete", "emergency"})
       => /\ last.session_id \notin DOMAIN pizza_sessions
          /\ last.session_id \notin DOMAIN triage_sessions
    /\ \A sid \in DOMAIN pizza_sessions : pizza_sessions[sid].state # "COMPLETE"
    /\ \A sid \in DOMAIN triage_sessions : triage_sessions[sid].state # "COMPLETE"

\* C16: cancelling a session that is in its terminal state changes nothing:
\* the store, and with it the session's record, is the same after the call
\* as before it.
C16_CancelTerminalNoOp ==
    [][\A sid \in SessionIds :
          /\ (/\ Called("cancel_order", sid)
              /\ sid \in DOMAIN pizza_sessions
              /\ pizza_sessions[sid].state = "COMPLETE")
             => pizza_sessions' = pizza_sessions
          /\ (/\ Called("cancel_session", sid)
              /\ sid \in DOMAIN triage_sessions
              /\ triage_sessions[sid].state = "COMPLETE")
             => triage_sessions' = triage_sessions]_vars

\* C17: get_order and get_session are read-only: for a present or an absent
\* id, the store and every session in it are the same after the call.
C17_InspectReadOnly ==
    [][\A sid \in SessionIds :
          (Called("get_order", sid) \/ Called("get_session", sid))
          => /\ pizza_sessions' = pizza_sessions
             /\ triage_sessions' = triage_sessions]_vars

\* C17 witness: a session with fields and audit entries behind it has just
\* been inspected and is still in the store as it was reported.
C17_Witness ==
    /\ last.op = "get_session"
    /\ last.from = "VITAL_SIGNS"
    /\ last.session_id \in DOMAIN triage_sessions
    /\ last.result = TriageToDict(triage_sessions[last.session_id])
    /\ Len(triage_sessions[last.session_id].protocol_steps) = 5

\* C18: a continue call with an id that is not in the store returns an error
\* status and changes nothing: no session is created and no session in the
\* store is changed.
C18_ContinueAbsentNoEffect ==
    [][\A sid \in SessionIds :
          /\ (Called("continue_order", sid) /\ sid \notin DOMAIN pizza_sessions)
             => /\ last'.result.status = "error"
                /\ pizza_sessions' = pizza_sessions
          /\ (Called("continue_triage", sid) /\ sid \notin DOMAIN triage_sessions)
             => /\ last'.result.status = "error"
                /\ triage_sessions' = triage_sessions]_vars

\* C18 witness: a continue call for an absent id has returned the error
\* while another session, with audit entries of its own, is in the store.
C18_Witness ==
    /\ last.op = "continue_triage"
    /\ last.session_id \notin DOMAIN triage_sessions
    /\ last.result.status = "error"
    /\ \E other \in DOMAIN triage_sessions :
          Len(triage_sessions[other].protocol_steps) > 1

\* C19: a continue call against a session in COMPLETE leaves the store, and
\* with it that session's state, fields, triage level, severity score and
\* audit trail, exactly as it was, whatever the input.
C19_TerminalAbsorbing ==
    [][\A sid \in SessionIds :
          /\ (/\ Called("continue_order", sid)
              /\ sid \in DOMAIN pizza_sessions
              /\ pizza_sessions[sid].state = "COMPLETE")
             => pizza_sessions' = pizza_sessions
          /\ (/\ Called("continue_triage", sid)
              /\ sid \in DOMAIN triage_sessions
              /\ triage_sessions[sid].state = "COMPLETE")
             => triage_sessions' = triage_sessions]_vars

\* C19 witness: a completed triage session has received a report that
\* requires the emergency protocol and is still in COMPLETE, not escalated.
C19_Witness ==
    /\ last.op = "continue_triage"
    /\ last.from = "COMPLETE"
    /\ RequiresEmergency(last.input)
    /\ triage_sessions[last.session_id].state = "COMPLETE"
    /\ ~triage_sessions[last.session_id].has_red_flags

\* The stripped input names a member of the option list: it is not empty,
\* and some option contains it or is contained in it, ignoring case.
NamesMember(input, options) == input # <<>> /\ Names(input, options)

\* The response names no member of the option set of the order's state.
NamesNoOption(order, user_response) ==
    LET response == Strip(user_response)
        parts == Split(Replace(response, StrAnd, <<",">>), ",")
    IN  \/ order.state = "CHOOSE_CRUST" /\ ~NamesMember(response, CRUSTS)
        \/ /\ order.state = "CHOOSE_CATEGORY"
           /\ ~Contains(StrVeg, Lower(response))
           /\ ~Contains(StrMeat, Lower(response))
        \/ /\ order.state = "CHOOSE_TOPPINGS"
           /\ \A i \in 1..Len(parts) :
                 ~NamesMember(Strip(parts[i]),
                              IF order.category = "vegetarian"
                              THEN VEGETARIAN_TOPPINGS ELSE MEAT_TOPPINGS)
        \/ order.state = "CHOOSE_SIZE" /\ ~NamesMember(response, SIZES)

\* C20: a continue_order call whose response names no member of the current
\* state's option set, the empty response included, leaves the session in
\* its state and records no crust, topping or size.
C20_NeverGuesses ==
    [][\A sid \in SessionIds :
          (/\ Called("continue_order", sid)
           /\ sid \in DOMAIN pizza_sessions
           /\ NamesNoOption(pizza_sessions[sid], last'.input))
          => pizza_sessions' = pizza_sessions]_vars

\* One continue call executed alone on the dictionary sessions: the
\* dictionary it leaves and the payload it returns.
ContinueAlone(sessions, sid, input) ==
    IF sid \notin DOMAIN sessions
    THEN [sessions |-> sessions,
          result |-> IF guide = "pizza"
                     THEN PizzaNotFound(sid, " not found. Please start a new order.")
                     ELSE TriageNotFound(sid, " not found. Please start a new triage.")]
    ELSE IF guide = "pizza"
    THEN LET out == PizzaDispatch(sessions[sid], Strip(input))
         IN  [sessions |-> IF out.deleted THEN DictDel(sessions, sid)
                           ELSE DictPut(sessions, sid, out.order),
              result |-> out.result]
    ELSE LET out == TriageDispatch(sessions[sid], input)
         IN  [sessions |-> DictPut(sessions, sid, out.session),
              result |-> out.result]

\* The outcome of the two running calls executed one after the other, the
\* call of thread first before the call of thread second.
SerialOutcome(first, second) ==
    LET one == ContinueAlone(calls.base, calls.session_id, calls.frames[first].input)
        two == ContinueAlone(one.sessions, calls.session_id, calls.frames[second].input)
    IN  [sessions |-> two.sessions, first |-> one.result, second |-> two.result]

\* Both running calls are continue calls and have returned or raised.
TwoContinuesDone ==
    /\ calls.active
    /\ \A t \in Threads : calls.frames[t].op = "continue" /\ calls.frames[t].pc = "done"

\* C12: when two continue calls on the same session have run side by side,
\* the session they leave and the two payloads they return are those of the
\* two calls executed one after the other, in one order or the other.
C12_Linearizable ==
    TwoContinuesDone
    => \E first \in Threads :
          \E second \in Threads \ {first} :
             SerialOutcome(first, second)
                = [sessions |-> Store,
                   first |-> calls.frames[first].result,
                   second |-> calls.frames[second].result]

\* C13: when a cancel and a continue call, or two continue calls, on the
\* same session have run side by side, each has returned a payload with an
\* explicit status and none has raised an exception.
C13_NoUnhandledException ==
    (/\ calls.active
     /\ \E t \in Threads : calls.frames[t].op = "continue"
     /\ \A t \in Threads : calls.frames[t].pc = "done")
    => \A t \in Threads :
          /\ "status" \in DOMAIN calls.frames[t].result
          /\ "exception" \notin DOMAIN calls.frames[t].result

(***************************************************************************)
(* C21: the severity score of a triage session never decreases: after any  *)
(* call that keeps the session, the score is at least what it was before.  *)
(***************************************************************************)
C21_SeverityMonotonic ==
    [][\A sid \in SessionIds :
          (/\ sid \in DOMAIN triage_sessions
           /\ sid \in DOMAIN triage_sessions'
           /\ ~TriageRestarted(sid))
          => triage_sessions'[sid].severity_score >= triage_sessions[sid].severity_score]_vars

\* A session whose score the medical history raised has gone through the
\* vital signs step with a report that names no critical value.
C21_Witness ==
    /\ last.op = "continue_triage"
    /\ last.from = "VITAL_SIGNS"
    /\ last.input = EmptyReport
    /\ last.session_id \in DOMAIN triage_sessions
    /\ triage_sessions[last.session_id].severity_score = 2

\* s is a prefix of t.
IsPrefix(s, t) == Len(s) <= Len(t) /\ SubSeq(t, 1, Len(s)) = s

(***************************************************************************)
(* C22: the audit trail is append-only: after any call that keeps a triage *)
(* session (a continue, an inspection, a call on another session), the     *)
(* trail before the call is a prefix of the trail after it.                *)
(***************************************************************************)
C22_TrailAppendOnly ==
    [][\A sid \in SessionIds :
          (/\ sid \in DOMAIN triage_sessions
           /\ sid \in DOMAIN triage_sessions'
           /\ ~TriageRestarted(sid))
          => IsPrefix(triage_sessions[sid].protocol_steps,
                      triage_sessions'[sid].protocol_steps)]_vars

\* A continue call has appended to a trail that already held the entries of
\* the start and of the red-flag screening.
C22_Witness ==
    /\ last.op = "continue_triage"
    /\ last.from = "CHIEF_COMPLAINT"
    /\ last.session_id \in DOMAIN triage_sessions
    /\ StepNames(triage_sessions[last.session_id]) =
          <<"triage_started", "red_flag_screening", "red_flag_screening_passed",
            "chief_complaint_gathered">>

\* The entry of session id other is the same before and after the step:
\* absent and absent, or present with an equal record.
Untouched(sessions, sessions_after, other) ==
    /\ (other \in DOMAIN sessions) = (other \in DOMAIN sessions_after)
    /\ other \in DOMAIN sessions => sessions_after[other] = sessions[other]

(***************************************************************************)
(* C23: session isolation: a start, continue, cancel or inspect call on    *)
(* one session id leaves the entry of every other session id as it was:    *)
(* its state, its fields and its audit trail.                              *)
(***************************************************************************)
C23_SessionIsolation ==
    [][\A sid \in SessionIds, other \in SessionIds :
          (last'.session_id = sid /\ other # sid)
          => /\ Untouched(pizza_sessions, pizza_sessions', other)
             /\ Untouched(triage_sessions, triage_sessions', other)]_vars

\* A session has been cancelled while another one, three calls into its
\* protocol, is still in the store.
C23_Witness ==
    /\ last.op = "cancel_session"
    /\ last.result.status = "cancelled"
    /\ \E other \in DOMAIN triage_sessions :
          /\ other # last.session_id
          /\ triage_sessions[other].state = "VITAL_SIGNS"

\* The values of the status enumeration.
DeclaredStatuses ==
    {"in_progress", "complete", "cancelled", "error", "emergency", "escalated"}

(***************************************************************************)
(* C24: the payload returned by a start, continue or cancel call carries a *)
(* status of the enumeration in_progress, complete, cancelled, error,      *)
(* emergency/escalated, and no other status is returned.                   *)
(***************************************************************************)
C24_StatusInEnumeration ==
    last.op \in {"start_order", "continue_order", "cancel_order",
                 "start_triage", "continue_triage", "cancel_session"}
    => /\ "status" \in DOMAIN last.result
       /\ last.result.status \in DeclaredStatuses

\* The domain fields of a pizza order and, for each, the states whose
\* handler assigns it.
PizzaFieldWriters ==
    [crust |-> {"CHOOSE_CRUST"},
     category |-> {"CHOOSE_CATEGORY"},
     toppings |-> {"CHOOSE_TOPPINGS"},
     size |-> {"CHOOSE_SIZE"}]

\* The domain fields of a triage session and, for each, the states whose
\* handler assigns it: the level and the recommendation are assigned by the
\* escalation of the red-flag screening or by the severity assessment, which
\* no session passes through both.
TriageFieldWriters ==
    [chief_complaint |-> {"CHIEF_COMPLAINT"},
     medical_history |-> {"MEDICAL_HISTORY"},
     vitals |-> {"VITAL_SIGNS"},
     triage_level |-> {"RED_FLAG_SCREENING", "SEVERITY_ASSESSMENT"},
     recommendation |-> {"RED_FLAG_SCREENING", "SEVERITY_ASSESSMENT"}]

\* Every field that differs between the records before and after the step
\* held its initial value, and the step is a continue call dispatched from a
\* state that writes the field.
WrittenOnce(before, after, fresh, writers) ==
    \A f \in DOMAIN writers :
        after[f] # before[f]
        => /\ before[f] = fresh[f]
           /\ before.state \in writers[f]
           /\ IsContinue(last')

PairDone ==
    /\ last.op \in {"start_order", "start_triage", "continue_order", "continue_triage"}
    /\ last.session_id = 2

\* The last call was a continue call on session 1: session 2 gets its input.
PairOpen == IsContinue(last) /\ last.session_id = 1

TwinNext ==
    \/ last.op = None /\ start_order(1)
    \/ last.op = "start_order" /\ last.session_id = 1 /\ start_order(2)
    \/ \E user_response \in Responses : PairDone /\ continue_order(1, user_response)
    \/ PairOpen /\ continue_order(2, last.input)
    \/ last.op = None /\ start_triage(1)
    \/ last.op = "start_triage" /\ last.session_id = 1 /\ start_triage(2)
    \/ \E agent_report \in Reports : PairDone /\ continue_triage(1, agent_report)
    \/ PairOpen /\ continue_triage(2, last.input)

TwinSpec == Init /\ [][TwinNext]_vars

\* What the claim compares of a session: its state, its domain fields,
\* severity score and triage level, and the names of its audit steps;
\* nothing where the session is absent.
Compared(sessions, sid) ==
    IF sid \notin DOMAIN sessions THEN EmptyDict
    ELSE IF guide = "pizza"
    THEN [state |-> sessions[sid].state,
          crust |-> sessions[sid].crust,
          category |-> sessions[sid].category,
          toppings |-> sessions[sid].toppings,
          size |-> sessions[sid].size]
    ELSE [state |-> sessions[sid].state,
          has_red_flags |-> sessions[sid].has_red_flags,
          chief_complaint |-> sessions[sid].chief_complaint,
          medical_history |-> sessions[sid].medical_history,
          vitals |-> sessions[sid].vitals,
          vitals_critical |-> sessions[sid].vitals_critical,
          severity_score |-> sessions[sid].severity_score,
          triage_level |-> sessions[sid].triage_level,
          recommendation |-> sessions[sid].recommendation,
          steps |-> StepNames(sessions[sid])]

\* The status and the task of a payload (the pizza guide names the task
\* "action").
StatusAndTask(result) ==
    [status |-> result.status,
     task |-> Get(result, "task", None),
     action |-> Get(result, "action", None)]

Members(list) == {list[i] : i \in 1..Len(list)}

\* The answers given to the confirmation question.
ConfirmResponses ==
    {<<"y", "e", "s">>,
     <<"Y", "e", "s", " ", "p", "l", "e", "a", "s", "e">>,
     <<"I", " ", "C", "O", "N", "F", "I", "R", "M">>,
     <<" ", "l", "o", "o", "k", "s", " ", "g", "o", "o", "d", " ">>,
     <<"l", "o", "o", "k", "s", " ", " ", "g", "o", "o", "d">>,
     <<"y", "e", " ", "s">>,
     <<"n", "o">>,
     <<"c", "a", "n", "c", "e", "l">>,
     <<>>}

\* An order as the four choice handlers leave it in CONFIRM.
ConfirmInit ==
    /\ guide = "pizza"
    /\ triage_sessions = EmptyDict
    /\ last = NoCall
    /\ calls = NoCalls
    /\ \E session_id \in SessionIds, crust \in Members(CRUSTS), size \in Members(SIZES),
          category \in {"vegetarian", "meat"} :
          \E topping \in Members(IF category = "vegetarian"
                                 THEN VEGETARIAN_TOPPINGS ELSE MEAT_TOPPINGS) :
             pizza_sessions =
                DictPut(EmptyDict, session_id,
                        [PizzaOrder(session_id, "CONFIRM") EXCEPT
                            !.crust = crust,
                            !.category = category,
                            !.toppings = <<topping>>,
                            !.size = size])

ConfirmNext ==
    \/ \E session_id \in SessionIds, user_response \in ConfirmResponses :
          continue_order(session_id, user_response)
    \/ \E session_id \in SessionIds : cancel_order(session_id)

ConfirmSpec == ConfirmInit /\ [][ConfirmNext]_vars

\* The response contains one of the three words of agreement, in any case.
Agrees(user_response) ==
    \E word \in {StrYes, StrConfirm, StrLooksGood} :
        \E i \in 1..Len(user_response) :
            /\ i + Len(word) - 1 <= Len(user_response)
            /\ Lower(SubSeq(user_response, i, i + Len(word) - 1)) = word

(***************************************************************************)
(* C27: from CONFIRM, a response containing 'yes', 'confirm' or 'looks     *)
(* good' completes the order: state COMPLETE, status complete, the order   *)
(* stays in the store.  Every other response deletes the order and returns *)
(* status cancelled.  A continue or a cancel on an id that is not in the   *)
(* store returns the not-found error and leaves the id absent.             *)
(***************************************************************************)
C27_Confirmation ==
    [][\A sid \in SessionIds :
          /\ (/\ sid \in DOMAIN pizza_sessions
              /\ pizza_sessions[sid].state = "CONFIRM"
              /\ Called("continue_order", sid))
             => IF Agrees(last'.input)
                THEN /\ sid \in DOMAIN pizza_sessions'
                     /\ pizza_sessions'[sid].state = "COMPLETE"
                     /\ last'.result.status = "complete"
                ELSE /\ sid \notin DOMAIN pizza_sessions'
                     /\ last'.result.status = "cancelled"
          /\ (/\ sid \notin DOMAIN pizza_sessions
              /\ (Called("continue_order", sid) \/ Called("cancel_order", sid)))
             => /\ sid \notin DOMAIN pizza_sessions'
                /\ last'.result.status = "error"
                /\ last'.result.message[1] = "Session "
                /\ last'.result.message[2] = sid]_vars

\* The order was confirmed with "I CONFIRM" and is kept, complete.
C27_Witness ==
    /\ last.op = "continue_order"
    /\ last.from = "CONFIRM"
    /\ last.input = <<"I", " ", "C", "O", "N", "F", "I", "R", "M">>
    /\ last.session_id \in DOMAIN pizza_sessions
    /\ pizza_sessions[last.session_id].state = "COMPLETE"
    /\ last.result.status = "complete"

\* The number of continue calls that take a session from a state past the
\* red-flag screening to COMPLETE.
CallsLeft(state) ==
    CASE state = "CHIEF_COMPLAINT" -> 4
      [] state = "MEDICAL_HISTORY" -> 3
      [] state = "VITAL_SIGNS" -> 2
      [] state = "SEVERITY_ASSESSMENT" -> 1
      [] state = "SAVE_RECORD" -> 1
      [] state = "COMPLETE" -> 0

\* The number of continue calls from the start to COMPLETE, by what the
\* first report says.
CallsInAll(emergency) == IF emergency THEN 2 ELSE 5

\* The continue calls that have advanced the session, counted by the audit
\* step each of them logs first.
CallsDone(session) ==
    Cardinality({i \in 1..Len(session.protocol_steps) :
        session.protocol_steps[i].step \in
            {"red_flag_screening", "chief_complaint_gathered",
             "medical_history_checked", "vital_signs_obtained",
             "triage_completed", "triage_record_saved"}})

EscalationTrail ==
    <<"triage_started", "red_flag_screening", "emergency_escalation_activated",
      "triage_record_saved">>

(***************************************************************************)
(* C29: the audit trail of a triage session starts with triage_started;    *)
(* the trail of a session completed on the normal path is exactly          *)
(* triage_started, red_flag_screening, red_flag_screening_passed,          *)
(* chief_complaint_gathered, medical_history_checked,                      *)
(* vital_signs_obtained, triage_completed; the trail of a session          *)
(* completed on the escalation path is exactly triage_started,             *)
(* red_flag_screening, emergency_escalation_activated,                     *)
(* triage_record_saved.                                                    *)
(***************************************************************************)
C29_TrailOrder ==
    \A sid \in DOMAIN triage_sessions :
        LET session == triage_sessions[sid]
        IN  /\ Len(session.protocol_steps) >= 1
            /\ session.protocol_steps[1].step = "triage_started"
            /\ session.state = "COMPLETE"
               => StepNames(session) = IF session.has_red_flags
                                       THEN EscalationTrail
                                       ELSE OrdinaryTrail

\* An escalated session has been completed, and a further continue call on
\* it has left the four entries of its trail as they were.
C29_Witness ==
    /\ last.op = "continue_triage"
    /\ last.from = "COMPLETE"
    /\ last.session_id \in DOMAIN triage_sessions
    /\ triage_sessions[last.session_id].has_red_flags
    /\ StepNames(triage_sessions[last.session_id]) = EscalationTrail

(***************************************************************************)
(* The severity assessment as a function of the accumulated data.          *)
(*                                                                         *)
(* The guide holds one session that has gone through the first four        *)
(* handlers and is in SEVERITY_ASSESSMENT; its severity score and its      *)
(* vitals_critical flag, the two values the assessment reads, are drawn    *)
(* from 0..MaxScore and BOOLEAN.                                           *)
(***************************************************************************)

\* The largest severity score drawn.
MaxScore == 6

\* The session as the handlers leave it in SEVERITY_ASSESSMENT after empty
\* reports.
AssessedSession(session_id) ==
    LET s0 == add_step(TriageSession(session_id, TriageInitialState),
                       "triage_started", [session_id |-> session_id])
        s1 == _handle_red_flag_screening(s0, EmptyReport).session
        s2 == _handle_chief_complaint(s1, EmptyReport).session
        s3 == _handle_medical_history(s2, EmptyReport).session
    IN  _handle_vital_signs(s3, EmptyReport).session

AssessInit ==
    /\ guide = "triage"
    /\ pizza_sessions = EmptyDict
    /\ last = NoCall
    /\ calls = NoCalls
    /\ \E session_id \in SessionIds, severity_score \in 0..MaxScore,
          vitals_critical \in BOOLEAN :
          triage_sessions =
             DictPut(EmptyDict, session_id,
                     [AssessedSession(session_id) EXCEPT
                         !.severity_score = severity_score,
                         !.vitals_critical = vitals_critical])

AssessNext ==
    \E session_id \in SessionIds, agent_report \in Reports :
        continue_triage(session_id, agent_report)

AssessSpec == AssessInit /\ [][AssessNext]_vars

\* The level the claim assigns to a score and a vitals_critical flag.
StatedLevel(severity_score, vitals_critical) ==
    CASE severity_score >= 5 \/ vitals_critical -> "EMERGENCY"
      [] OTHER ->
           CASE severity_score >= 3 -> "URGENT"
             [] OTHER ->
                  CASE severity_score >= 2 -> "SEMI_URGENT"
                    [] OTHER -> "NON_URGENT"

(***************************************************************************)
(* C30: the level assigned at SEVERITY_ASSESSMENT is EMERGENCY if the      *)
(* score is at least 5 or vitals_critical holds, otherwise URGENT if the   *)
(* score is at least 3, otherwise SEMI_URGENT if it is at least 2,         *)
(* otherwise NON_URGENT, for every score and flag and whatever the report  *)
(* of the call holds.                                                      *)
(***************************************************************************)
C30_LevelAssignment ==
    (last.op = "continue_triage" /\ last.from = "SEVERITY_ASSESSMENT")
    => LET session == triage_sessions[last.session_id]
           level == StatedLevel(session.severity_score, session.vitals_critical)
       IN  /\ session.state = "COMPLETE"
           /\ session.triage_level = level
           /\ last.result.triage_level = TriageLevelValue(level)

\* A session with score 4 and no critical vital sign has been assessed with
\* a report that speaks of an emergency, and is URGENT.
C30_Witness ==
    /\ last.op = "continue_triage"
    /\ last.from = "SEVERITY_ASSESSMENT"
    /\ RequiresEmergency(last.input)
    /\ triage_sessions[last.session_id].severity_score = 4
    /\ ~triage_sessions[last.session_id].vitals_critical
    /\ triage_sessions[last.session_id].triage_level = "URGENT"

(***************************************************************************)
(* C31: whenever continue_triage returns status complete with              *)
(* protocol_compliance.all_steps_completed true, the flags                 *)
(* red_flags_screened, vitals_obtained and history_reviewed of the same    *)
(* payload are all true.                                                   *)
(***************************************************************************)
C31_ComplianceFlags ==
    (/\ last.op = "continue_triage"
     /\ last.result.status = "complete"
     /\ last.result.protocol_compliance.all_steps_completed)
    => /\ last.result.protocol_compliance.red_flags_screened
       /\ last.result.protocol_compliance.vitals_obtained
       /\ last.result.protocol_compliance.history_reviewed

\* The order has passed the state: it is in a later state of the table.
Passed(order, state) ==
    IndexIn(PizzaOrderOfStates, order.state) > IndexIn(PizzaOrderOfStates, state)

(***************************************************************************)
(* C32: state and fields of a pizza order agree in every reachable state:  *)
(* an order past CHOOSE_CRUST has a crust, past CHOOSE_CATEGORY a category *)
(* of vegetarian or meat, past CHOOSE_TOPPINGS a non-empty toppings list,  *)
(* past CHOOSE_SIZE a size, and the field of a state not yet passed is     *)
(* unset; so the order summary, built for an order in CONFIRM or COMPLETE, *)
(* reads no unset field.                                                   *)
(***************************************************************************)
C32_PizzaFieldsMatchState ==
    /\ \A sid \in DOMAIN pizza_sessions :
          LET order == pizza_sessions[sid]
          IN  /\ order.state \in Members(PizzaOrderOfStates)
              /\ (order.crust # None) = Passed(order, "CHOOSE_CRUST")
              /\ (order.category \in {"vegetarian", "meat"}) = Passed(order, "CHOOSE_CATEGORY")
              /\ (order.category = None) = ~Passed(order, "CHOOSE_CATEGORY")
              /\ (order.toppings # <<>>) = Passed(order, "CHOOSE_TOPPINGS")
              /\ (order.size # None) = Passed(order, "CHOOSE_SIZE")
    /\ (last.op = "continue_order" /\ "order_summary" \in DOMAIN last.result)
       => /\ last.result.order_summary.Size # None
          /\ last.result.order_summary.Crust # None
          /\ last.result.order_summary.Toppings # <<>>

\* An order has just received its size and entered CONFIRM, and the payload
\* carries its summary.
C32_Witness ==
    /\ last.op = "continue_order"
    /\ last.from = "CHOOSE_SIZE"
    /\ "order_summary" \in DOMAIN last.result
    /\ last.session_id \in DOMAIN pizza_sessions
    /\ pizza_sessions[last.session_id].state = "CONFIRM"
    /\ pizza_sessions[last.session_id].size # None

(***************************************************************************)
(* One pizza order at a time, answered from both menus.                    *)
(*                                                                         *)
(* The client starts an order when the guide holds none and answers with   *)
(* responses that name crusts, both categories, toppings of both menus in  *)
(* one list, sizes, and nothing at all.                                    *)
(***************************************************************************)
MenuResponses ==
    {<<"t", "h", "i", "c", "k">>,
     <<"v", "e", "g", "g", "i", "e">>,
     <<"m", "e", "a", "t">>,
     <<"M", "u", "s", "h", "r", "o", "o", "m", "s", ",", " ", "O", "l", "i", "v", "e", "s",
       " ", "a", "n", "d", " ", "H", "a", "m">>,
     <<"p", "e", "p", "p", "e", "r", "o", "n", "i", ",", "s", "p", "i", "n", "a", "c", "h">>,
     <<"m", "e", "d", "i", "u", "m">>,
     <<"x", "y", "z">>,
     <<>>,
     <<"y", "e", "s">>}

MenuInit == Init /\ guide = "pizza"

MenuNext ==
    \/ \E session_id \in SessionIds :
          DOMAIN pizza_sessions = {} /\ start_order(session_id)
    \/ \E session_id \in SessionIds, user_response \in MenuResponses :
          continue_order(session_id, user_response)

MenuSpec == MenuInit /\ [][MenuNext]_vars

(***************************************************************************)
(* C33: recorded pizza choices are menu items: in every reachable state    *)
(* the crust is unset or a member of CRUSTS, the size is unset or a member *)
(* of SIZES, and every element of toppings belongs to the topping list of  *)
(* the order's category: VEGETARIAN_TOPPINGS for vegetarian,               *)
(* MEAT_TOPPINGS for meat.                                                 *)
(***************************************************************************)
C33_ChoicesAreMenuItems ==
    \A sid \in DOMAIN pizza_sessions :
        LET order == pizza_sessions[sid]
        IN  /\ order.crust = None \/ order.crust \in Members(CRUSTS)
            /\ order.size = None \/ order.size \in Members(SIZES)
            /\ order.category = "vegetarian"
               => Members(order.toppings) \subseteq Members(VEGETARIAN_TOPPINGS)
            /\ order.category = "meat"
               => Members(order.toppings) \subseteq Members(MEAT_TOPPINGS)
            /\ order.category \notin {"vegetarian", "meat"} => order.toppings = <<>>

\* A vegetarian order was answered with a list naming two vegetarian
\* toppings and a meat topping, and holds the two vegetarian ones.
C33_Witness ==
    /\ last.op = "continue_order"
    /\ last.from = "CHOOSE_TOPPINGS"
    /\ last.session_id \in DOMAIN pizza_sessions
    /\ pizza_sessions[last.session_id].category = "vegetarian"
    /\ pizza_sessions[last.session_id].toppings = <<"Mushrooms", "Olives">>

(***************************************************************************)
(* C34: under sequential calls the severity score of a triage session is   *)
(* one of 0, 2, 3, 5, and a score of 3 or more comes with vitals_critical; *)
(* so a session completed on the normal path has level EMERGENCY,          *)
(* SEMI_URGENT or NON_URGENT, never URGENT.                                *)
(***************************************************************************)
C34_ReachableScores ==
    \A sid \in DOMAIN triage_sessions :
        LET session == triage_sessions[sid]
        IN  /\ session.severity_score \in {0, 2, 3, 5}
            /\ session.severity_score >= 3 => session.vitals_critical
            /\ (session.state = "COMPLETE" /\ ~session.has_red_flags)
               => session.triage_level \in {"EMERGENCY", "SEMI_URGENT", "NON_URGENT"}

\* A session whose only contribution to the score are critical vital signs
\* has been completed on the normal path, as EMERGENCY.
C34_Witness ==
    /\ last.op = "continue_triage"
    /\ last.from = "SEVERITY_ASSESSMENT"
    /\ last.session_id \in DOMAIN triage_sessions
    /\ triage_sessions[last.session_id].severity_score = 3
    /\ triage_sessions[last.session_id].vitals_critical
    /\ triage_sessions[last.session_id].triage_level = "EMERGENCY"

(***************************************************************************)
(* C35: in every reachable state of a triage session the level and the     *)
(* recommendation are set when the state is SAVE_RECORD or COMPLETE and    *)
(* unset in every other state; the level is IMMEDIATE exactly when the     *)
(* session is escalated (has_red_flags), so an escalated session keeps its *)
(* IMMEDIATE level through every later call.                               *)
(***************************************************************************)
C35_LevelSetWhenDecided ==
    \A sid \in DOMAIN triage_sessions :
        LET session == triage_sessions[sid]
            decided == session.state \in {"SAVE_RECORD", "COMPLETE"}
        IN  /\ (session.triage_level # None) = decided
            /\ (session.recommendation # None) = decided
            /\ (session.triage_level = "IMMEDIATE") = session.has_red_flags

\* The red-flag screening has just escalated a session: it waits in
\* SAVE_RECORD with level IMMEDIATE and its recommendation.
C35_Witness ==
    /\ last.op = "continue_triage"
    /\ last.from = "RED_FLAG_SCREENING"
    /\ last.session_id \in DOMAIN triage_sessions
    /\ triage_sessions[last.session_id].state = "SAVE_RECORD"
    /\ triage_sessions[last.session_id].has_red_flags
    /\ triage_sessions[last.session_id].triage_level = "IMMEDIATE"
    /\ triage_sessions[last.session_id].recommendation # None

====
